---------------------------- MODULE CollectProofs ----------------------------
(***************************************************************************)
(* The command line and the collection, for any arguments, any executable  *)
(* and any number of failing calls: the parameters are distinct positions  *)
(* in argv, and if no call fails the collection ends with exactly the      *)
(* tests that were asked for.  SelectionProofs and ProgramProofs build on  *)
(* these steps.                                                            *)
(***************************************************************************)
EXTENDS Collect, FiniteSetTheorems, SequenceTheorems, WellFoundedInduction, TLAPS

-----------------------------------------------------------------------------
(* Counting.                                                               *)

Descent == {p \in Nat \X Nat : p[1] < p[2]}

\* A set of natural numbers has a least element.
LEMMA LeastNumber ==
    ASSUME NEW S, S \subseteq Nat, S # {}
    PROVE  \E n \in S : \A m \in S : n <= m
<1>1. IsWellFoundedOn(Descent, Nat)
  BY NatLessThanWellFounded DEF Descent, OpToRel
<1>2. PICK n \in S : \A m \in S : <<m, n>> \notin Descent
  BY <1>1, WFMin
<1>3. ASSUME NEW m \in S PROVE n <= m
  <2>1. m \in Nat /\ n \in Nat
    OBVIOUS
  <2>2. <<m, n>> \in Nat \X Nat /\ <<m, n>>[1] = m /\ <<m, n>>[2] = n
    BY <2>1
  <2>3. ~(m < n)
    BY <1>2, <2>2 DEF Descent
  <2> QED
    BY <2>1, <2>3
<1> QED
  BY <1>3

Under(S, i) == {j \in S : j < i}

\* How many members of a set of numbers are below a bound.
LEMMA UnderCount ==
    ASSUME NEW n \in Nat, NEW S \in SUBSET (1..n)
    PROVE  /\ IsFiniteSet(S) /\ Cardinality(S) \in Nat
           /\ \A i \in Nat : IsFiniteSet(Under(S, i)) /\ Cardinality(Under(S, i)) \in Nat
<1>1. IsFiniteSet(1..n)
  BY FS_Interval
<1>2. IsFiniteSet(S)
  BY <1>1, FS_Subset
<1>3. ASSUME NEW i \in Nat PROVE IsFiniteSet(Under(S, i))
  <2>1. Under(S, i) \subseteq S
    BY DEF Under
  <2> QED
    BY <1>2, <2>1, FS_Subset
<1> QED
  BY <1>2, <1>3, FS_CardinalityType

\* The bound moves past a member or not.
LEMMA UnderStep ==
    ASSUME NEW n \in Nat, NEW S \in SUBSET (1..n), NEW i \in Nat
    PROVE  /\ Under(S, 0) = {}
           /\ i \notin S => Under(S, i + 1) = Under(S, i)
           /\ i \in S => Cardinality(Under(S, i + 1)) = Cardinality(Under(S, i)) + 1
<1>1. \A j \in S : j \in Nat /\ j # 0
  OBVIOUS
<1>2. ASSUME i \notin S PROVE Under(S, i + 1) = Under(S, i)
  <2>1. \A j \in S : j < i + 1 <=> j < i
    BY <1>1, <1>2
  <2> QED
    BY <2>1 DEF Under
<1>4. Under(S, 0) = {}
  <2>1. \A j \in S : ~(j < 0)
    BY <1>1
  <2> QED
    BY <2>1 DEF Under
<1>3. ASSUME i \in S PROVE Cardinality(Under(S, i + 1)) = Cardinality(Under(S, i)) + 1
  <2>3. \A j \in S : j < i + 1 <=> (j < i \/ j = i)
    BY <1>1
  <2>1. Under(S, i + 1) = Under(S, i) \cup {i}
    BY <1>3, <2>3 DEF Under
  <2>2. i \notin Under(S, i)
    BY DEF Under
  <2> QED
    BY <2>1, <2>2, UnderCount, FS_AddElement
<1> QED
  BY <1>2, <1>3, <1>4

\* For every count there is a member with as many others below it.
LEMMA NthExists ==
    ASSUME NEW n \in Nat, NEW S \in SUBSET (1..n), NEW k \in 1..Cardinality(S)
    PROVE  \E i \in S : Cardinality(Under(S, i)) = k - 1
<1> DEFINE Enough == {m \in Nat : Cardinality(Under(S, m)) >= k}
<1>1. n + 1 \in Enough
  <2>2. \A j \in S : j < n + 1
    OBVIOUS
  <2>1. Under(S, n + 1) = S
    BY <2>2 DEF Under
  <2> QED
    BY <2>1, UnderCount
<1>2. PICK m \in Enough : \A l \in Enough : m <= l
  BY <1>1, LeastNumber
<1>3. m # 0
  <2>1. Cardinality(Under(S, 0)) = 0
    BY UnderStep, FS_EmptySet
  <2> QED
    BY <1>2, <2>1, UnderCount
<1> DEFINE i == m - 1
<1>4. i \in Nat /\ i + 1 = m /\ i \notin Enough
  <2>1. m \in Nat
    BY <1>2
  <2>2. i \in Nat /\ i + 1 = m /\ ~(m <= i)
    BY <2>1, <1>3
  <2> QED
    BY <2>2, <1>2
<1>7. k \in Nat /\ Cardinality(Under(S, m)) >= k
  BY <1>2, UnderCount
<1> HIDE DEF i
<1>5. i \in S
  BY <1>7, <1>4, UnderStep
<1>6. /\ Cardinality(Under(S, i)) \in Nat
      /\ Cardinality(Under(S, i)) < k
      /\ Cardinality(Under(S, i)) + 1 >= k
  <2>1. Cardinality(Under(S, i)) \in Nat /\ ~(Cardinality(Under(S, i)) >= k)
    BY <1>4, UnderCount
  <2>2. Cardinality(Under(S, m)) = Cardinality(Under(S, i)) + 1
    BY <1>4, <1>5, UnderStep
  <2> QED
    BY <1>7, <2>1, <2>2
<1> QED
  BY <1>5, <1>6, <1>7

\* A member has fewer below it than a greater one.
LEMMA UnderOrdered ==
    ASSUME NEW n \in Nat, NEW S \in SUBSET (1..n), NEW i \in S, NEW j \in S, i < j
    PROVE  Cardinality(Under(S, i)) < Cardinality(Under(S, j))
<1>1. i \in Nat /\ j \in Nat
  OBVIOUS
<1>5. \A l \in S : l \in Nat /\ (l < i + 1 => l < j)
  BY <1>1
<1>2. Under(S, i + 1) \subseteq Under(S, j)
  BY <1>5 DEF Under
<1>3. Cardinality(Under(S, i + 1)) <= Cardinality(Under(S, j))
  BY <1>1, <1>2, UnderCount, FS_Subset
<1>4. Cardinality(Under(S, i + 1)) = Cardinality(Under(S, i)) + 1
  BY <1>1, UnderStep
<1>6. Cardinality(Under(S, i)) \in Nat /\ Cardinality(Under(S, j)) \in Nat
  BY <1>1, UnderCount
<1> QED
  BY <1>3, <1>4, <1>6

\* InOrder lists the members of a set of positions, smaller ones first.
LEMMA InOrderLists ==
    ASSUME NEW n \in Nat, NEW S \in SUBSET (1..n)
    PROVE  /\ InOrder(S) \in Seq(1..n)
           /\ Len(InOrder(S)) = Cardinality(S)
           /\ \A k \in 1..Cardinality(S) : InOrder(S)[k] \in S
           /\ \A k, l \in 1..Cardinality(S) : k < l => InOrder(S)[k] < InOrder(S)[l]
<1>1. Cardinality(S) \in Nat
  BY UnderCount
<1>2. ASSUME NEW k \in 1..Cardinality(S)
      PROVE  InOrder(S)[k] \in S /\ Cardinality(Under(S, InOrder(S)[k])) = k - 1
  <2>1. InOrder(S)[k] = CHOOSE i \in S : Cardinality(Under(S, i)) = k - 1
    BY DEF InOrder, Under
  <2>2. \E i \in S : Cardinality(Under(S, i)) = k - 1
    BY NthExists
  <2> QED
    BY <2>1, <2>2
<1>3. \A k \in 1..Cardinality(S) : InOrder(S)[k] \in 1..n
  BY <1>2
<1>4. InOrder(S) \in [1..Cardinality(S) -> 1..n]
  BY <1>3 DEF InOrder
<1>5. InOrder(S) \in Seq(1..n) /\ Len(InOrder(S)) = Cardinality(S)
  BY <1>1, <1>4
<1>6. ASSUME NEW k \in 1..Cardinality(S), NEW l \in 1..Cardinality(S), k < l
      PROVE  InOrder(S)[k] < InOrder(S)[l]
  <2> DEFINE i == InOrder(S)[k]
             j == InOrder(S)[l]
  <2>1. /\ i \in S /\ Cardinality(Under(S, i)) = k - 1
        /\ j \in S /\ Cardinality(Under(S, j)) = l - 1
    BY <1>2
  <2>7. \A x \in S : x \in Nat
    OBVIOUS
  <2>2. i \in Nat /\ j \in Nat
    BY <2>1, <2>7
  <2> HIDE DEF i, j
  <2>3. k - 1 < l - 1
    BY <1>6, <1>1
  <2>4. i # j
    BY <2>1, <2>3
  <2>5. ~(j < i)
    <3>1. SUFFICES ASSUME j < i PROVE FALSE
      OBVIOUS
    <3>2. Cardinality(Under(S, j)) < Cardinality(Under(S, i))
      BY <2>1, <3>1, UnderOrdered
    <3>3. l - 1 < k - 1
      BY <2>1, <3>2
    <3> QED
      BY <2>3, <3>3, <1>1
  <2>6. i < j
    BY <2>2, <2>4, <2>5
  <2> QED
    BY <2>6 DEF i, j
<1> QED
  BY <1>2, <1>5, <1>6
-----------------------------------------------------------------------------
(* The command line.                                                       *)

\* The parameters are positions in argv, each only once.
Positions ==
    /\ posparams \in Seq(1..Len(argv))
    /\ \A k, l \in DOMAIN posparams : k < l => posparams[k] < posparams[l]

ArgInv ==
    /\ argc \in Nat
    /\ argv \in Seq(ArgPool)
    /\ posflags \subseteq 1..Len(argv)
    /\ Positions

\* The parser starts with no argument read.
LEMMA ArgsBegin == ArgInit => ArgInv
<1> SUFFICES ASSUME ArgInit PROVE ArgInv
  OBVIOUS
<1>1. argc \in Nat
  BY ArgAssumption DEF ArgInit
<1>2. argv \in Seq(ArgPool) /\ posflags \subseteq 1..Len(argv)
  BY DEF ArgInit
<1>3. Positions
  BY DEF Positions, ArgInit
<1> QED
  BY <1>1, <1>2, <1>3 DEF ArgInv

\* The members of a set of positions and the other positions.
LEMMA Complement ==
    ASSUME NEW n \in Nat, NEW S \in SUBSET (1..n)
    PROVE  Cardinality(S) + Cardinality((1..n) \ S) = n
<1> DEFINE T == (1..n) \ S
<1>1. IsFiniteSet(1..n) /\ Cardinality(1..n) = n
  BY FS_Interval
<1>2. IsFiniteSet(S) /\ IsFiniteSet(T)
  BY <1>1, FS_Subset
<1>3. Cardinality(S) \in Nat /\ Cardinality(T) \in Nat
  BY <1>2, FS_CardinalityType
<1>4. Cardinality(S \cup T) = Cardinality(S) + Cardinality(T) - Cardinality(S \cap T)
  BY <1>2, FS_Union
<1>5. S \cup T = 1..n /\ S \cap T = {}
  OBVIOUS
<1>6. Cardinality({}) = 0
  BY FS_EmptySet
<1>7. n = Cardinality(S) + Cardinality(T) - 0
  BY <1>1, <1>4, <1>5, <1>6
<1> QED
  BY <1>3, <1>7

\* The second of two lists that are joined.
LEMMA SecondPart ==
    ASSUME NEW n \in Nat, NEW a \in Seq(1..n), NEW b \in Seq(1..n)
    PROVE  SubSeq(a \o b, Len(a) + 1, Len(a) + Len(b)) = b
  OBVIOUS

\* What the partition hands on: the positions in posflags, in order.
LEMMA Partitioned ==
    ASSUME ArgInv, Len(argv) + 1 = argc
    PROVE  LET q == SubSeq(Partition, FirstPositional, argc - 1)
           IN  /\ q \in Seq(1..Len(argv))
               /\ \A k, l \in DOMAIN q : k < l => q[k] < q[l]
<1> DEFINE n == Len(argv)
           rest == (1..n) \ posflags
           front == InOrder(rest)
           back == InOrder(posflags)
           q == SubSeq(Partition, FirstPositional, argc - 1)
<1>1. /\ n \in Nat /\ argc = n + 1
      /\ posflags \in SUBSET (1..n) /\ rest \in SUBSET (1..n)
  BY DEF ArgInv
<1>2. /\ Cardinality(posflags) \in Nat /\ Cardinality(rest) \in Nat
      /\ IsFiniteSet(posflags) /\ IsFiniteSet(rest)
  BY <1>1, UnderCount
<1>3. Cardinality(posflags) + Cardinality(rest) = n
  BY <1>1, Complement
<1>4. front \in Seq(1..n) /\ Len(front) = Cardinality(rest)
  BY <1>1, InOrderLists
<1>5. /\ back \in Seq(1..n) /\ Len(back) = Cardinality(posflags)
      /\ \A k, l \in 1..Cardinality(posflags) : k < l => back[k] < back[l]
  BY <1>1, InOrderLists
<1>6. q = back
  <2>1. Partition = front \o back
    BY DEF Partition
  <2>4. FirstPositional = argc - Cardinality(posflags)
    BY DEF FirstPositional
  <2>2. FirstPositional = Len(front) + 1 /\ argc - 1 = Len(front) + Len(back)
    <3> HIDE DEF n, front, back, q, rest
    <3> QED
      BY <1>1, <1>2, <1>3, <1>4, <1>5, <2>4
  <2>3. q = SubSeq(front \o back, Len(front) + 1, Len(front) + Len(back))
    BY <2>1, <2>2
  <2> QED
    BY <1>1, <1>4, <1>5, <2>3, SecondPart
<1>7. DOMAIN back = 1..Cardinality(posflags)
  BY <1>2, <1>5
<1> QED
  BY <1>5, <1>6, <1>7

\* Parsing reads arguments and marks positional ones.
LEMMA ArgsStep == ArgInv /\ ArgNext => ArgInv'
<1> SUFFICES ASSUME ArgInv, ArgNext PROVE ArgInv'
  OBVIOUS
<1>1. CASE UNCHANGED <<argc, argv, posflags, posparams>>
  BY <1>1 DEF ArgInv, Positions
<1>2. CASE ReadArgument
  <2>1. PICK s \in ArgPool : argv' = Append(argv, s)
    BY <1>2 DEF ReadArgument
  <2>2. argc' = argc /\ posparams' = posparams
    BY <1>2 DEF ReadArgument
  <2>3. posflags' \subseteq posflags \cup {Len(argv) + 1}
    BY <1>2 DEF ReadArgument
  <2>4. argv \in Seq(ArgPool) /\ Len(argv) \in Nat
    BY DEF ArgInv
  <2>5. argv' \in Seq(ArgPool) /\ Len(argv') = Len(argv) + 1
    BY <2>1, <2>4, AppendProperties
  <2>6. 1..Len(argv) \subseteq 1..Len(argv') /\ Len(argv) + 1 \in 1..Len(argv')
    BY <2>4, <2>5
  <2>7. posflags' \subseteq 1..Len(argv')
    BY <2>3, <2>6 DEF ArgInv
  <2>8. posparams' \in Seq(1..Len(argv'))
    BY <2>2, <2>6, SeqMonotonic DEF ArgInv, Positions
  <2>9. Positions'
    BY <2>2, <2>8 DEF ArgInv, Positions
  <2> QED
    BY <2>2, <2>5, <2>7, <2>9 DEF ArgInv
<1>3. CASE ParseEnd
  <2>1. /\ UNCHANGED <<argc, argv, posflags>>
        /\ Len(argv) + 1 = argc
        /\ \/ posparams' = posparams
           \/ posparams' = SubSeq(Partition, FirstPositional, argc - 1)
    BY <1>3 DEF ParseEnd
  <2>2. Positions'
    BY <2>1, Partitioned DEF ArgInv, Positions
  <2> QED
    BY <2>1, <2>2 DEF ArgInv
<1> QED
  BY <1>1, <1>2, <1>3 DEF ArgNext, ParseBegin, AddOption
-----------------------------------------------------------------------------
(* Looking a record up.                                                    *)

\* The identifier at position i names the record.
Names(i, r) == argv[i] \in {<<r.base>>, <<r.name>>}

\* The search finds a position in the table that names the record, if there is
\* one; 0 is no position.
LEMMA EntryFinds ==
    ASSUME table \subseteq Nat \ {0}, NEW r
    PROVE  /\ Entry(r) # 0 => Entry(r) \in table /\ Names(Entry(r), r)
           /\ (\E i \in table : Names(i, r)) => Entry(r) # 0
<1> DEFINE I == {k \in 1..Len(Identifiers(r)) : \E i \in table : argv[i] = <<Identifiers(r)[k]>>}
           hit == SelectInSeq(Identifiers(r), LAMBDA n : \E i \in table : argv[i] = <<n>>)
           found == CHOOSE i \in table : argv[i] = <<Identifiers(r)[hit]>>
<1>1. /\ 1..Len(Identifiers(r)) = {1, 2}
      /\ Identifiers(r)[1] = r.base /\ Identifiers(r)[2] = r.name
  BY DEF Identifiers
<1>2. hit = IF I # {} THEN Min(I) ELSE 0
  BY DEF SelectInSeq
<1>3. I \subseteq {1, 2}
  BY <1>1
<1>4. ASSUME I # {} PROVE hit \in I
  <2>3. I \subseteq Nat
    BY <1>3
  <2>1. PICK k \in I : \A m \in I : k <= m
    BY <1>4, <2>3, LeastNumber
  <2>2. Min(I) \in I
    BY <2>1 DEF Min
  <2> QED
    BY <1>2, <1>4, <2>2
<1>5. Entry(r) = IF hit = 0 THEN 0 ELSE found
  BY DEF Entry
<1>6. ASSUME I # {} PROVE Entry(r) \in table /\ Entry(r) # 0 /\ Names(Entry(r), r)
  <2>1. hit \in {1, 2} /\ \E i \in table : argv[i] = <<Identifiers(r)[hit]>>
    BY <1>3, <1>4, <1>6
  <2>2. found \in table /\ argv[found] = <<Identifiers(r)[hit]>>
    BY <2>1
  <2>4. Identifiers(r)[hit] \in {r.base, r.name}
    BY <1>1, <2>1
  <2> HIDE DEF found, hit
  <2>5. hit # 0
    BY <2>1
  <2>3. Entry(r) = found
    BY <1>5, <2>5
  <2> QED
    BY <2>2, <2>3, <2>4 DEF Names
<1>7. ASSUME I = {} PROVE Entry(r) = 0
  BY <1>2, <1>5, <1>7
<1>8. ASSUME NEW i \in table, Names(i, r) PROVE I # {}
  <2>1. argv[i] = <<r.base>> \/ argv[i] = <<r.name>>
    BY <1>8 DEF Names
  <2>2. 1 \in I \/ 2 \in I
    BY <1>1, <2>1
  <2> QED
    BY <2>2
<1> HIDE DEF I
<1> QED
  BY <1>6, <1>7, <1>8
-----------------------------------------------------------------------------
(* The collection.                                                         *)

\* The places on the way to the collection, and those that are only reached
\* with the executable mapped.
Early  == {"start", "map", "needed", "argp", "options", "parsed",
           "capture_out", "capture_err", "collect"}
Mapped == (Early \ {"start", "map"}) \cup {"idents", "records", "collected"}

\* The text of parameter k is in the table.
Entered(k) == \E i \in table : argv[i] = argv[posparams[k]]

\* The records the search has come by, and those of them that are to be run.
Seen(n)    == {m \in image.tests : \E i \in 1..n - 1 : image.strtab[i] = m}
IsAsked(r) == posparams = << >> \/ \E i \in table : Names(i, r)
Chosen(names) == {Record(m) : m \in {l \in names : IsAsked(Record(l))}}

CollectInv ==
    /\ image \in Images
    /\ at \in Mapped => BaseAddr(image) # 0
    /\ next \in Nat \ {0}
    /\ table \subseteq {posparams[k] : k \in DOMAIN posparams}
    /\ at \in Early => table = {} /\ marked = {} /\ tree = {} /\ next = 1
    /\ at = "idents" =>
          /\ tree = {}
          /\ failures = 0 => \A k \in 1..next - 1 : Entered(k)
    /\ at = "records" =>
          /\ failures = 0 => \A k \in DOMAIN posparams : Entered(k)
          /\ \A n \in Seen(next) : SymLookup(image, n) # 0
          /\ tree = Chosen(Seen(next))
    /\ at \in {"collected", "execute"} => (failures = 0 => tree = Wanted)

\* The positions in the table are positions in argv, so 0 is none of them.
LEMMA TablePositions ==
    ASSUME ArgInv, CollectInv
    PROVE  /\ Len(argv) \in Nat /\ Len(posparams) \in Nat
           /\ DOMAIN posparams = 1..Len(posparams)
           /\ \A k \in DOMAIN posparams : posparams[k] \in 1..Len(argv)
           /\ table \subseteq 1..Len(argv)
           /\ table \subseteq Nat \ {0}
<1>1. argv \in Seq(ArgPool) /\ posparams \in Seq(1..Len(argv))
  BY DEF ArgInv, Positions
<1>2. /\ Len(argv) \in Nat /\ Len(posparams) \in Nat
      /\ DOMAIN posparams = 1..Len(posparams)
      /\ \A k \in DOMAIN posparams : posparams[k] \in 1..Len(argv)
  BY <1>1
<1>3. table \subseteq 1..Len(argv)
  BY <1>2 DEF CollectInv
<1> QED
  BY <1>2, <1>3

\* Once all of .strtab has been searched and no call has failed, the tree has
\* the tests that were asked for.
LEMMA SearchComplete ==
    ASSUME ArgInv, CollectInv, at = "records", next > Len(image.strtab), failures = 0
    PROVE  tree = Wanted
<1>1. image \in Images /\ BaseAddr(image) # 0 /\ next \in Nat
  BY DEF CollectInv, Mapped, Early
<1>2. image.strtab \in Seq(ToSet(image.strtab))
  BY <1>1, ImageAssumption
<1>3. Len(image.strtab) \in Nat /\ DOMAIN image.strtab = 1..Len(image.strtab)
  BY <1>2
<1>4. Seen(next) = image.tests
  <2>1. \A i \in DOMAIN image.strtab : i \in 1..next - 1
    BY <1>1, <1>3
  <2>2. \A m \in image.tests : \E i \in DOMAIN image.strtab : image.strtab[i] = m
    BY <1>1, ImageAssumption
  <2> QED
    BY <2>1, <2>2 DEF Seen
<1>5. \A m \in image.tests : SymLookup(image, m) # 0
  BY <1>4 DEF CollectInv
<1>6. DOMAIN image.memory = {SymLookup(image, m) : m \in image.tests}
  BY <1>1, <1>5, ImageAssumption
<1>7. AllRecords = {Record(m) : m \in image.tests}
  BY <1>6 DEF AllRecords, Record
<1>8. tree = {r \in AllRecords : IsAsked(r)}
  <2>1. tree = Chosen(image.tests)
    BY <1>4 DEF CollectInv
  <2> QED
    BY <1>7, <2>1 DEF Chosen
<1>9. \A k \in DOMAIN posparams : Entered(k)
  BY DEF CollectInv
<1>10. CASE posparams = << >>
  <2>1. Asked = {}
    BY <1>10 DEF Asked
  <2> QED
    BY <1>8, <1>10, <2>1 DEF Wanted, IsAsked
<1>11. CASE posparams # << >>
  <2>1. DOMAIN posparams # {}
    BY <1>11, TablePositions, EmptySeq DEF ArgInv, Positions
  <2>2. Asked # {}
    BY <2>1 DEF Asked
  <2>3. \A i \in table : \E k \in DOMAIN posparams : posparams[k] = i
    BY DEF CollectInv
  <2>4. \A r : IsAsked(r) <=> \E id \in Asked : id \in {<<r.base>>, <<r.name>>}
    BY <1>9, <1>11, <2>3 DEF IsAsked, Names, Asked, Entered
  <2>5. Wanted = UNION {NamedBy(id) : id \in Asked}
    BY <2>2 DEF Wanted
  <2>6. \A r : r \in Wanted <=> r \in AllRecords /\ IsAsked(r)
    BY <2>4, <2>5 DEF NamedBy
  <2> QED
    BY <1>8, <2>6
<1> QED
  BY <1>10, <1>11

\* The step that looks at the next string of .strtab.
LEMMA MatchStep ==
    ASSUME ArgInv, CollectInv, MatchRecord, UNCHANGED <<argVars, elfVars>>
    PROVE  CollectInv'
<1>1. /\ at = "records" /\ next \in Nat \ {0} /\ next' = next + 1
      /\ image \in Images /\ image' = image /\ posparams' = posparams
      /\ table' = table /\ argv' = argv /\ failures' = failures
  BY DEF MatchRecord, NextString, CollectInv, argVars, elfVars
<1> DEFINE name == image.strtab[next]
           r == Record(name)
<1>2. at' \in {"records", "uncollected"} /\ (at' = "records" => at' = at)
  BY <1>1 DEF MatchRecord, Goto
<1>3. Seen(next)' = IF IsRecord(name) THEN Seen(next) \cup {name} ELSE Seen(next)
  <2>1. \A i : i \in 1..next' - 1 <=> i \in 1..next - 1 \/ i = next
    BY <1>1
  <2> QED
    BY <1>1, <2>1 DEF Seen, IsRecord
<1>4. at' = "records" =>
          /\ IsRecord(name) => SymLookup(image, name) # 0
          /\ tree' = IF IsRecord(name) /\ IsAsked(r) THEN tree \cup {r} ELSE tree
  <2>1. table \subseteq Nat \ {0}
    BY TablePositions
  <2>2. Entry(r) # 0 <=> \E i \in table : Names(i, r)
    BY <2>1, EntryFinds
  <2> HIDE DEF r
  <2>3. CASE ~IsRecord(name) /\ UNCHANGED <<at, marked, tree>>
    BY <2>3
  <2>4. CASE IsRecord(name) /\ SymLookup(image, name) = 0 /\ Goto("uncollected")
    BY <2>4 DEF Goto
  <2>5. CASE /\ IsRecord(name) /\ SymLookup(image, name) # 0 /\ posparams = << >>
             /\ tree' = tree \cup {r}
    BY <2>5 DEF IsAsked
  <2>6. CASE /\ IsRecord(name) /\ SymLookup(image, name) # 0 /\ posparams # << >>
             /\ IF Entry(r) = 0 THEN UNCHANGED <<marked, tree>>
                ELSE tree' = tree \cup {r} /\ marked' = marked \cup {End(Entry(r))}
    BY <2>2, <2>6 DEF IsAsked
  <2> QED
    BY <2>3, <2>4, <2>5, <2>6 DEF MatchRecord, r
<1>5. ASSUME at' = "records"
      PROVE  /\ tree' = Chosen(Seen(next))'
             /\ \A n \in Seen(next)' : SymLookup(image', n) # 0
  <2>1. \A n : Record(n)' = Record(n)
    BY <1>1 DEF Record
  <2>2. \A x : IsAsked(x)' = IsAsked(x)
    BY <1>1 DEF IsAsked, Names
  <2>3. \A S : Chosen(S)' = Chosen(S)
    BY <2>1, <2>2 DEF Chosen
  <2>4. PICK T : T = Seen(next)'
    OBVIOUS
  <2>5. Chosen(Seen(next))' = Chosen(T)'
    BY <2>4 DEF Chosen, Seen
  <2>6. Chosen(T)' = Chosen(T)
    BY <2>3
  <2>7. T = IF IsRecord(name) THEN Seen(next) \cup {name} ELSE Seen(next)
    BY <1>3, <2>4
  <2>8. tree = Chosen(Seen(next)) /\ \A n \in Seen(next) : SymLookup(image, n) # 0
    BY <1>1 DEF CollectInv
  <2>9. tree' = Chosen(T)
    <3>1. CASE ~IsRecord(name)
      BY <1>4, <1>5, <2>7, <2>8, <3>1
    <3>2. CASE IsRecord(name) /\ IsAsked(r)
      BY <1>4, <1>5, <2>7, <2>8, <3>2 DEF Chosen
    <3>3. CASE IsRecord(name) /\ ~IsAsked(r)
      BY <1>4, <1>5, <2>7, <2>8, <3>3 DEF Chosen
    <3> QED
      BY <3>1, <3>2, <3>3
  <2>10. \A n \in T : SymLookup(image', n) # 0
    BY <1>1, <1>4, <1>5, <2>7, <2>8
  <2> QED
    BY <2>4, <2>5, <2>6, <2>9, <2>10
<1> QED
  BY <1>1, <1>2, <1>5 DEF CollectInv, Mapped, Early, Entered
\* The step that puts the next identifier into the table.
LEMMA HashStep ==
    ASSUME ArgInv, CollectInv, failures \in Nat, HashIdent, UNCHANGED <<argVars, elfVars>>
    PROVE  CollectInv'
<1>1. /\ at = "idents" /\ at' = at /\ next \in Nat \ {0} /\ next' = next + 1
      /\ next <= Len(posparams) /\ tree' = tree
      /\ image \in Images /\ image' = image /\ posparams' = posparams /\ argv' = argv
  BY DEF HashIdent, CollectInv, argVars, elfVars
<1> DEFINE i == posparams[next]
           dup == \E k \in table : argv[k] = argv[i]
<1>2. next \in DOMAIN posparams
  BY <1>1, TablePositions
<1>3. table' = table \/ table' = table \cup {i}
  BY DEF HashIdent
<1>4. table \subseteq table' /\ table' \subseteq {posparams'[k] : k \in DOMAIN posparams'}
  BY <1>1, <1>2, <1>3 DEF CollectInv
<1>5. ASSUME failures' = 0 PROVE \A k \in 1..next' - 1 : Entered(k)'
  <2>1. failures = 0 /\ failures' = failures
    BY <1>5 DEF HashIdent, Succeeds, Fails
  <2>2. dup \/ i \in table'
    BY <2>1 DEF HashIdent, Fails
  <2>6. PICK n : n = next
    OBVIOUS
  <2>3. Entered(n)'
    BY <1>1, <1>4, <2>2, <2>6 DEF Entered
  <2>4. ASSUME NEW k \in 1..next - 1 PROVE Entered(k)'
    <3>1. Entered(k)
      BY <1>1, <2>1 DEF CollectInv
    <3> QED
      BY <1>1, <1>4, <3>1 DEF Entered
  <2>5. \A k \in 1..next' - 1 : k = n \/ k \in 1..next - 1
    BY <1>1, <2>6
  <2> QED
    BY <2>3, <2>4, <2>5
<1> QED
  BY <1>1, <1>4, <1>5 DEF CollectInv, Mapped, Early, Entered

\* Every step of the collection.
LEMMA CollectStep ==
    ASSUME ArgInv, CollectInv, failures \in Nat, CollectNext, UNCHANGED <<argVars, elfVars>>
    PROVE  CollectInv' /\ failures' \in Nat
<1>1. CASE CollectBegin
  <2>1. /\ at = "collect" /\ at' = IF posparams = << >> THEN "records" ELSE "idents"
        /\ UNCHANGED <<failures, argVars, elfVars, collectVars>>
    BY <1>1 DEF CollectBegin, Goto
  <2>2. tree = {} /\ next = 1 /\ table = {} /\ image \in Images
    BY <2>1 DEF CollectInv, Early
  <2>3. Seen(1) = {} /\ Chosen({}) = {}
    BY DEF Seen, Chosen
  <2>4. posparams = << >> => DOMAIN posparams = {}
    BY EmptySeq
  <2>5. BaseAddr(image) # 0
    BY <2>1 DEF CollectInv, Mapped, Early
  <2>6. at' = "records" => CollectInv'
    BY <2>1, <2>2, <2>3, <2>4, <2>5
       DEF CollectInv, Mapped, Early, Seen, Chosen, argVars, elfVars, collectVars
  <2>7. at' = "idents" => CollectInv'
    BY <2>1, <2>2, <2>5
       DEF CollectInv, Mapped, Early, argVars, elfVars, collectVars
  <2> QED
    BY <2>1, <2>6, <2>7
<1>2. CASE HashIdent
  BY <1>2, HashStep DEF HashIdent, Succeeds, Fails
<1>3. CASE HashedAll
  <2>1. /\ at = "idents" /\ at' = "records" /\ next > Len(posparams) /\ next' = 1
        /\ UNCHANGED <<failures, argVars, elfVars, table, marked, tree>>
    BY <1>3 DEF HashedAll, Goto
  <2>2. tree = {} /\ image \in Images /\ next \in Nat /\ BaseAddr(image) # 0
    BY <2>1 DEF CollectInv, Mapped, Early
  <2>3. Seen(1) = {} /\ Chosen({}) = {}
    BY DEF Seen, Chosen
  <2>4. \A k \in DOMAIN posparams : k \in 1..next - 1
    BY <2>1, <2>2, TablePositions
  <2>5. failures = 0 => \A k \in DOMAIN posparams : Entered(k)
    BY <2>1, <2>4 DEF CollectInv
  <2>6. Seen(next)' = {} /\ Chosen(Seen(next))' = {}
    BY <2>1, <2>3 DEF Seen, Chosen
  <2> QED
    BY <2>1, <2>2, <2>5, <2>6
       DEF CollectInv, Mapped, Early, Entered, argVars, elfVars, collectVars
<1>4. CASE MatchRecord
  BY <1>4, MatchStep DEF MatchRecord
<1>5. CASE CheckIdents
  <2>1. /\ at = "records" /\ at' \in {"collected", "uncollected"}
        /\ next > Len(image.strtab)
        /\ UNCHANGED <<failures, argVars, elfVars, collectVars>>
    BY <1>5 DEF CheckIdents, Goto
  <2>2. failures = 0 => tree = Wanted
    BY <2>1, SearchComplete
  <2>3. image \in Images /\ BaseAddr(image) # 0
    BY <2>1 DEF CollectInv, Mapped, Early
  <2>4. Wanted' = Wanted
    BY <2>1 DEF Wanted, Asked, AllRecords, NamedBy, argVars, elfVars
  <2> QED
    BY <2>1, <2>2, <2>3, <2>4 DEF CollectInv, Mapped, Early, argVars, elfVars, collectVars
<1>6. CASE CollectAux
  <2>1. /\ at = "collected" /\ at' = "execute"
        /\ UNCHANGED <<failures, next, table, marked, tree, argVars, elfVars>>
    BY <1>6 DEF CollectAux, Goto
  <2>2. failures = 0 => tree = Wanted
    BY <2>1 DEF CollectInv
  <2>4. Wanted' = Wanted
    BY <2>1 DEF Wanted, Asked, AllRecords, NamedBy, argVars, elfVars
  <2> QED
    BY <2>1, <2>2, <2>4 DEF CollectInv, Mapped, Early, argVars, elfVars, collectVars
<1> QED
  BY <1>1, <1>2, <1>3, <1>4, <1>5, <1>6 DEF CollectNext

\* The parser leaves the collection alone.
LEMMA ParseStep ==
    ASSUME ArgInv, CollectInv, failures \in Nat, ArgNext, UNCHANGED <<elfVars, collectVars>>
    PROVE  ArgInv' /\ CollectInv' /\ failures' \in Nat
<1>1. ArgInv'
  BY ArgsStep
<1>2. /\ at \in {"argp", "options"} /\ at' \in {"options", "refused", "parsed"}
      /\ failures' \in Nat
  BY DEF ArgNext, ParseBegin, AddOption, ReadArgument, ParseEnd, Goto, Succeeds, Fails
<1>3. /\ table = {} /\ marked = {} /\ tree = {} /\ next = 1
      /\ image \in Images /\ BaseAddr(image) # 0
  BY <1>2 DEF CollectInv, Mapped, Early
<1>4. CollectInv'
  BY <1>2, <1>3 DEF CollectInv, Mapped, Early, elfVars, collectVars
<1> QED
  BY <1>1, <1>2, <1>4

=============================================================================
