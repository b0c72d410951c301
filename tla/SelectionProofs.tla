--------------------------- MODULE SelectionProofs ---------------------------
(***************************************************************************)
(* The tests to run, for any command line, any executable and any number   *)
(* of failing calls: they are exactly those that were asked for, and the   *)
(* marks that are left in the identifiers do not make the check at the end *)
(* refuse a good one or pass a bad one it can read to the end, unless two  *)
(* identifiers share a test or two tests an identifier.                    *)
(***************************************************************************)
EXTENDS Selection, CollectProofs

-----------------------------------------------------------------------------
(* Which tests are run.                                                    *)

SelectionInv ==
    /\ ArgInv
    /\ CollectInv
    /\ failures \in Nat

\* It holds in the beginning.
LEMMA SelectionInit == Init => SelectionInv
<1> SUFFICES ASSUME Init PROVE SelectionInv
  OBVIOUS
<1>1. /\ at = "argp" /\ failures = 0 /\ image \in Images
      /\ next = 1 /\ table = {} /\ marked = {} /\ tree = {}
  BY DEF Init, ElfInit, CollectInit
<1>2. ArgInv
  BY ArgsBegin DEF Init
<1>3. CollectInv
  BY <1>1, MappedAssumption DEF CollectInv, Mapped, Early
<1> QED
  BY <1>1, <1>2, <1>3 DEF SelectionInv

\* Every step keeps it.
LEMMA SelectionNext == SelectionInv /\ [Next]_vars => SelectionInv'
<1> SUFFICES ASSUME SelectionInv, [Next]_vars PROVE SelectionInv'
  OBVIOUS
<1>1. ArgInv /\ CollectInv /\ failures \in Nat
  BY DEF SelectionInv
<1>2. ASSUME UNCHANGED <<argc, argv, posflags, posparams>> PROVE ArgInv'
  BY <1>1, <1>2 DEF ArgInv, Positions
<1>3. CASE ArgNext /\ UNCHANGED <<elfVars, collectVars>>
  BY <1>1, <1>3, ParseStep DEF SelectionInv
<1>4. CASE StartRunner
  <2>1. /\ at = "parsed" /\ at' \in {"informed", "collect"}
        /\ UNCHANGED <<failures, argVars, elfVars, collectVars>>
    BY <1>4 DEF StartRunner, Goto
  <2>2. /\ table = {} /\ marked = {} /\ tree = {} /\ next = 1
        /\ image \in Images /\ BaseAddr(image) # 0
    BY <1>1, <2>1 DEF CollectInv, Mapped, Early
  <2>3. CollectInv'
    BY <2>1, <2>2 DEF CollectInv, Mapped, Early, elfVars, collectVars
  <2> QED
    BY <1>1, <1>2, <2>1, <2>3 DEF SelectionInv, argVars
<1>5. CASE CollectNext /\ UNCHANGED <<argVars, elfVars>>
  BY <1>1, <1>2, <1>5, CollectStep DEF SelectionInv, argVars
<1>6. CASE UNCHANGED vars
  <2>1. UNCHANGED <<at, failures, argVars, elfVars, collectVars>>
    BY <1>6 DEF vars, mainVars
  <2>2. Seen(next)' = Seen(next)
    BY <2>1 DEF Seen, elfVars, collectVars
  <2>3. Wanted' = Wanted
    BY <2>1 DEF Wanted, Asked, AllRecords, NamedBy, argVars, elfVars
  <2>4. Chosen(Seen(next))' = Chosen(Seen(next))
    BY <2>1 DEF Chosen, Seen, IsAsked, Names, Record, argVars, elfVars, collectVars
  <2>5. CollectInv'
    BY <1>1, <2>1, <2>2, <2>3, <2>4
       DEF CollectInv, Mapped, Early, Entered, argVars, elfVars, collectVars
  <2> QED
    BY <1>1, <1>2, <2>1, <2>5 DEF SelectionInv, argVars
<1> QED
  BY <1>3, <1>4, <1>5, <1>6 DEF Next, Ended

\* If no call fails, the tests to run are exactly those asked for, whatever
\* marks cldm_collect_from has left in the identifiers on the way.
THEOREM Exactness == Spec => []SelectionExact
<1>1. SelectionInv => SelectionExact
  BY DEF SelectionInv, CollectInv, SelectionExact
<1> QED
  BY <1>1, SelectionInit, SelectionNext, PTL DEF Spec
-----------------------------------------------------------------------------
(* The marks in the identifiers.                                           *)

\* No identifier names two tests, and no test is named by two identifiers.
Disjoint ==
    /\ \A id \in Asked : Cardinality(NamedBy(id)) <= 1
    /\ \A x, y \in Asked : x # y => NamedBy(x) \cap NamedBy(y) = {}

\* One of the records that are passed by answers to the identifier.
Used(i, names) == \E m \in names : Names(i, Record(m))

\* An identifier that is a duplicate, or did not get into the table, is marked
\* at once, one in the table as soon as a record has used it.
MarksInv ==
    /\ IsFiniteSet(marked)
    /\ \A i, j \in table : argv[i] = argv[j] => i = j
    /\ at = "idents" =>
          /\ next <= Len(posparams) + 1
          /\ table \cup marked = {posparams[k] : k \in 1..next - 1}
          /\ table \cap marked = {}
    /\ at = "records" /\ Disjoint /\ ~Unmappable =>
          /\ \A k \in DOMAIN posparams : posparams[k] \in table \cup marked
          /\ \A i \in table : i \in marked <=> Used(i, Seen(next))
    /\ at \in {"collected", "execute"} =>
          /\ ~Unmappable
          /\ Disjoint /\ failures = 0 => \A id \in Asked : Checked(id) => NamedBy(id) # {}
    /\ at = "uncollected" /\ Disjoint =>
          Unmappable \/ \E id \in Asked : Checked(id) /\ NamedBy(id) = {}

\* A string whose end is in place is not run on.
LEMMA OwnEnd ==
    ASSUME IsFiniteSet(marked), NEW i \in Nat, i \notin marked
    PROVE  End(i) = i
<1> DEFINE n == Cardinality(marked)
           IsEnd(j) == j \notin marked /\ \A k \in i..j - 1 : k \in marked
<1>1. n \in Nat
  BY FS_CardinalityType
<1>2. i \in i..i + n /\ IsEnd(i)
  BY <1>1
<1>3. ASSUME NEW j \in i..i + n, IsEnd(j) PROVE j = i
  <2>1. j \in Nat /\ i <= j
    BY <1>1
  <2>2. i < j => i \in i..j - 1
    BY <2>1
  <2> QED
    BY <1>3, <2>1, <2>2
<1>4. End(i) = CHOOSE j \in i..i + n : IsEnd(j)
  BY DEF End
<1> HIDE DEF n, IsEnd
<1> QED
  BY <1>2, <1>3, <1>4

\* The records, if each has an address.
LEMMA RecordsHere ==
    ASSUME image \in Images, ~Unmappable
    PROVE  /\ AllRecords = {Record(m) : m \in image.tests}
           /\ IsFiniteSet(AllRecords)
           /\ \A m, n \in image.tests : Record(m) = Record(n) => m = n
<1>1. \A m \in image.tests : SymLookup(image, m) # 0
  BY DEF Unmappable
<1>2. DOMAIN image.memory = {SymLookup(image, m) : m \in image.tests}
  BY <1>1, ImageAssumption, MappedAssumption
<1>3. AllRecords = {Record(m) : m \in image.tests}
  BY <1>2 DEF AllRecords, Record
<1>4. \A m, n \in image.tests : Record(m) = Record(n) => m = n
  BY <1>1, ImageAssumption, MappedAssumption DEF Record
<1>5. IsFiniteSet(AllRecords)
  <2> DEFINE n == Len(image.strtab)
             f == [i \in 1..n |-> Record(image.strtab[i])]
             S == {f[i] : i \in 1..n}
  <2>1. image.strtab \in Seq(ToSet(image.strtab))
    BY ImageAssumption
  <2>2. n \in Nat /\ DOMAIN image.strtab = 1..n
    BY <2>1
  <2>3. IsFiniteSet(1..n)
    BY <2>2, FS_Interval
  <2>4. \A m \in image.tests : \E i \in 1..n : image.strtab[i] = m
    BY <2>2, ImageAssumption
  <2>5. AllRecords \subseteq S
    BY <1>3, <2>4
  <2>6. f \in [1..n -> S] /\ \A x \in S : \E i \in 1..n : f[i] = x
    OBVIOUS
  <2>8. f \in Surjection(1..n, S)
    BY <2>6 DEF Surjection
  <2> HIDE DEF n, f, S
  <2>7. IsFiniteSet(S)
    BY <2>3, <2>8, FS_Surjection
  <2> QED
    BY <2>5, <2>7, FS_Subset
<1> QED
  BY <1>3, <1>4, <1>5

\* Two tests with the same identifier are one, as are two identifiers of the
\* same test.
LEMMA DisjointMeans ==
    ASSUME image \in Images, ~Unmappable, Disjoint
    PROVE  /\ \A id \in Asked : \A x, y \in NamedBy(id) : x = y
           /\ \A x, y \in Asked : \A r \in NamedBy(x) : r \in NamedBy(y) => x = y
<1>1. ASSUME NEW id \in Asked, NEW x \in NamedBy(id), NEW y \in NamedBy(id), x # y
      PROVE  FALSE
  <2>1. IsFiniteSet(NamedBy(id))
    <3>1. NamedBy(id) \subseteq AllRecords
      BY DEF NamedBy
    <3> QED
      BY <3>1, RecordsHere, FS_Subset
  <2>2. Cardinality({x}) = 1 /\ IsFiniteSet({x})
    BY FS_Singleton
  <2>7. y \notin {x}
    BY <1>1
  <2>8. Cardinality({x} \cup {y}) = Cardinality({x}) + 1 /\ IsFiniteSet({x} \cup {y})
    BY <2>2, <2>7, FS_AddElement
  <2>3. Cardinality({x} \cup {y}) = 2
    BY <2>2, <2>8
  <2>4. {x} \cup {y} \subseteq NamedBy(id)
    OBVIOUS
  <2>5. Cardinality({x} \cup {y}) <= Cardinality(NamedBy(id))
    BY <2>1, <2>4, FS_Subset
  <2>6. Cardinality(NamedBy(id)) \in Nat /\ Cardinality(NamedBy(id)) <= 1
    BY <2>1, FS_CardinalityType DEF Disjoint
  <2> QED
    BY <2>3, <2>5, <2>6
<1> QED
  BY <1>1 DEF Disjoint
\* The marks in the beginning.
LEMMA MarksInit == Init => MarksInv
<1> SUFFICES ASSUME Init PROVE MarksInv
  OBVIOUS
<1>1. at = "argp" /\ marked = {} /\ table = {}
  BY DEF Init, CollectInit
<1> QED
  BY <1>1, FS_EmptySet DEF MarksInv

\* What does not touch the arguments or the image changes no meaning.
LEMMA SameMeaning ==
    ASSUME UNCHANGED <<argv, posparams, image>>
    PROVE  /\ Asked' = Asked /\ Disjoint' = Disjoint /\ Unmappable' = Unmappable
           /\ \A id : NamedBy(id)' = NamedBy(id)
           /\ \A i, S : Used(i, S)' = Used(i, S)
           /\ \A n : Seen(n)' = Seen(n)
<1>1. \A id : NamedBy(id)' = NamedBy(id)
  BY DEF NamedBy, AllRecords
<1>2. Asked' = Asked
  BY DEF Asked
<1>3. Disjoint' = Disjoint
  BY <1>1, <1>2 DEF Disjoint
<1>4. Unmappable' = Unmappable
  BY DEF Unmappable
<1>5. \A i, S : Used(i, S)' = Used(i, S)
  BY DEF Used, Names, Record
<1>6. \A n : Seen(n)' = Seen(n)
  BY DEF Seen
<1> QED
  BY <1>1, <1>2, <1>3, <1>4, <1>5, <1>6

\* Hashing an identifier.
LEMMA MarksHash ==
    ASSUME SelectionInv, MarksInv, HashIdent, UNCHANGED <<argVars, elfVars>>
    PROVE  MarksInv'
<1>1. /\ at = "idents" /\ at' = at /\ next \in Nat \ {0} /\ next' = next + 1
      /\ next <= Len(posparams) /\ posparams' = posparams /\ argv' = argv
  BY DEF HashIdent, SelectionInv, CollectInv, argVars
<1>2. /\ Len(posparams) \in Nat /\ DOMAIN posparams = 1..Len(posparams)
      /\ \A k \in DOMAIN posparams : posparams[k] \in Nat
      /\ \A k, l \in DOMAIN posparams : k < l => posparams[k] < posparams[l]
  <2>1. /\ Len(posparams) \in Nat /\ DOMAIN posparams = 1..Len(posparams)
        /\ \A k \in DOMAIN posparams : posparams[k] \in 1..Len(argv)
    BY TablePositions DEF SelectionInv
  <2> QED
    BY <2>1 DEF SelectionInv, ArgInv, Positions
<1> DEFINE i == posparams[next]
           dup == \E k \in table : argv[k] = argv[i]
<1>3. next \in DOMAIN posparams /\ i \in Nat
  BY <1>1, <1>2
<1>4. \A k \in 1..next - 1 : posparams[k] # i
  <2>1. ASSUME NEW k \in 1..next - 1 PROVE posparams[k] # i
    <3>1. k \in DOMAIN posparams /\ k < next
      BY <1>1, <1>2
    <3>2. posparams[k] \in Nat /\ posparams[k] < i
      BY <1>2, <1>3, <3>1
    <3> QED
      BY <1>3, <3>2
  <2> QED
    BY <2>1
<1>5. /\ table \cup marked = {posparams[k] : k \in 1..next - 1}
      /\ table \cap marked = {} /\ IsFiniteSet(marked)
      /\ \A j, k \in table : argv[j] = argv[k] => j = k
  BY <1>1 DEF MarksInv
<1>6. i \notin table /\ i \notin marked
  BY <1>4, <1>5
<1>7. End(i) = i
  BY <1>3, <1>5, <1>6, OwnEnd
<1>8. \/ ~dup /\ table' = table \cup {i} /\ marked' = marked
      \/ table' = table /\ marked' = marked \cup {i}
  BY <1>7 DEF HashIdent
<1>9. {posparams'[k] : k \in 1..next' - 1} = {posparams[k] : k \in 1..next - 1} \cup {i}
  <2>1. \A k : k \in 1..next' - 1 <=> k \in 1..next - 1 \/ k = next
    BY <1>1
  <2> QED
    BY <1>1, <2>1
<1> HIDE DEF i
<1>10. IsFiniteSet(marked')
  BY <1>5, <1>8, FS_AddElement
<1>11. \A j, k \in table' : argv'[j] = argv'[k] => j = k
  BY <1>1, <1>5, <1>8
<1>12. /\ table' \cup marked' = {posparams'[k] : k \in 1..next' - 1}
       /\ table' \cap marked' = {}
  <2> DEFINE before == {posparams[k] : k \in 1..next - 1}
             after  == {posparams'[k] : k \in 1..next' - 1}
  <2>1. after = before \cup {i}
    BY <1>9
  <2>2. table \cup marked = before /\ table \cap marked = {}
    BY <1>5
  <2> HIDE DEF before, after
  <2>3. table' \cup marked' = after
    BY <1>8, <2>1, <2>2
  <2>4. table' \cap marked' = {}
    BY <1>6, <1>8, <2>2
  <2> QED
    BY <2>3, <2>4 DEF after
<1>13. next' <= Len(posparams') + 1
  BY <1>1, <1>2
<1> QED
  BY <1>1, <1>10, <1>11, <1>12, <1>13 DEF MarksInv

\* Matching a record.
LEMMA MarksMatch ==
    ASSUME SelectionInv, MarksInv, MatchRecord, UNCHANGED <<argVars, elfVars>>
    PROVE  MarksInv'
<1>1. /\ at = "records" /\ next \in Nat \ {0} /\ next' = next + 1
      /\ next <= Len(image.strtab)
      /\ image \in Images /\ image' = image /\ posparams' = posparams
      /\ table' = table /\ argv' = argv
  BY DEF MatchRecord, NextString, SelectionInv, CollectInv, argVars, elfVars
<1> DEFINE name == image.strtab[next]
           r == Record(name)
           e == Entry(r)
<1>2. /\ table \subseteq Nat \ {0}
      /\ \A i \in table : \E k \in DOMAIN posparams : posparams[k] = i
  BY TablePositions DEF SelectionInv, CollectInv
<1>3. /\ e # 0 => e \in table /\ Names(e, r)
      /\ (\E i \in table : Names(i, r)) => e # 0
  BY <1>2, EntryFinds
<1>4. IsFiniteSet(marked')
  BY FS_AddElement DEF MatchRecord, MarksInv
<1>5. \A i, j \in table' : argv'[i] = argv'[j] => i = j
  BY <1>1 DEF MarksInv
<1>6. at' \in {"records", "uncollected"}
  BY <1>1 DEF MatchRecord, Goto
<1>7. at' = "uncollected" => Unmappable
  BY <1>1 DEF MatchRecord, Goto, IsRecord, Unmappable
<1>8. Seen(next)' = IF name \in image.tests THEN Seen(next) \cup {name} ELSE Seen(next)
  <2>1. \A i : i \in 1..next' - 1 <=> i \in 1..next - 1 \/ i = next
    BY <1>1
  <2> QED
    BY <1>1, <2>1 DEF Seen
<1>9. name \in image.tests => name \notin Seen(next)
  <2>1. image.strtab \in Seq(ToSet(image.strtab))
    BY <1>1, ImageAssumption
  <2>2. DOMAIN image.strtab = 1..Len(image.strtab) /\ Len(image.strtab) \in Nat
    BY <2>1
  <2>3. SUFFICES ASSUME name \in image.tests, NEW i \in 1..next - 1, image.strtab[i] = name
                 PROVE  FALSE
    BY DEF Seen
  <2>4. i \in DOMAIN image.strtab /\ next \in DOMAIN image.strtab /\ i # next
    BY <1>1, <2>2
  <2> QED
    BY <1>1, <2>3, <2>4, ImageAssumption
<1>10. ASSUME at' = "records", Disjoint, ~Unmappable
       PROVE  /\ \A k \in DOMAIN posparams : posparams[k] \in table \cup marked'
              /\ \A i \in table : i \in marked' <=> Used(i, Seen(next)')
  <2>1. /\ \A k \in DOMAIN posparams : posparams[k] \in table \cup marked
        /\ \A i \in table : i \in marked <=> Used(i, Seen(next))
    BY <1>1, <1>10 DEF MarksInv
  <2>2. Seen(next) \subseteq image.tests
    BY DEF Seen
  <2>3. /\ AllRecords = {Record(m) : m \in image.tests}
        /\ \A m, n \in image.tests : Record(m) = Record(n) => m = n
    BY <1>1, <1>10, RecordsHere
  <2>4. /\ \A id \in Asked : \A x, y \in NamedBy(id) : x = y
        /\ \A x, y \in Asked : \A s \in NamedBy(x) : s \in NamedBy(y) => x = y
    BY <1>1, <1>10, DisjointMeans
  <2>5. \A i \in table : argv[i] \in Asked
    BY <1>2 DEF Asked
  <2>6. \A i \in table, m \in image.tests : Names(i, Record(m)) <=> Record(m) \in NamedBy(argv[i])
    BY <2>3 DEF Names, NamedBy
  <2>7. \A i, j \in table : argv[i] = argv[j] => i = j
    BY DEF MarksInv
  <2>8. CASE name \notin image.tests
    <3>1. marked' = marked
      BY <2>8 DEF MatchRecord, IsRecord
    <3> QED
      BY <1>8, <2>1, <2>8, <3>1
  <2>9. CASE name \in image.tests /\ e = 0
    <3>1. marked' = marked
      BY <1>1, <1>10, <2>9 DEF MatchRecord, IsRecord, Goto
    <3>2. \A i \in table : ~Names(i, r)
      BY <1>3, <2>9
    <3> QED
      BY <1>8, <2>1, <2>9, <3>1, <3>2 DEF Used
  <2>10. CASE name \in image.tests /\ e # 0
    <3>1. e \in table /\ Names(e, r) /\ r \in NamedBy(argv[e])
      BY <1>3, <2>6, <2>10
    <3>2. e \notin marked
      <4>1. SUFFICES ASSUME NEW m \in Seen(next), Names(e, Record(m)) PROVE FALSE
        BY <2>1, <3>1 DEF Used
      <4>2. m \in image.tests /\ Record(m) \in NamedBy(argv[e])
        BY <2>2, <2>6, <3>1, <4>1
      <4>3. Record(m) = r
        BY <2>4, <2>5, <3>1, <4>2
      <4>4. m = name
        BY <2>3, <2>10, <4>2, <4>3
      <4> QED
        BY <1>9, <2>10, <4>4
    <3>3. e \in Nat /\ IsFiniteSet(marked)
      BY <1>2, <3>1 DEF MarksInv
    <3>4. End(e) = e
      BY <3>2, <3>3, OwnEnd
    <3>5. posparams # << >>
      <4>1. DOMAIN posparams # {}
        BY <1>2, <3>1
      <4>2. posparams = << >> => DOMAIN posparams = {}
        BY EmptySeq
      <4> QED
        BY <4>1, <4>2
    <3>6. marked' = marked \cup {e}
      BY <1>1, <1>10, <2>10, <3>4, <3>5 DEF MatchRecord, IsRecord, Goto
    <3>7. \A i \in table : Names(i, r) <=> i = e
      <4>1. ASSUME NEW i \in table, Names(i, r) PROVE i = e
        <5>1. r \in NamedBy(argv[i])
          BY <2>6, <2>10, <4>1
        <5>2. argv[i] = argv[e]
          BY <2>4, <2>5, <3>1, <5>1
        <5> QED
          BY <2>7, <3>1, <5>2
      <4> QED
        BY <3>1, <4>1
    <3> HIDE DEF e, r
    <3>8. \A i \in table : Used(i, Seen(next)') <=> Used(i, Seen(next)) \/ Names(i, r)
      BY <1>8, <2>10 DEF Used, r
    <3> QED
      BY <2>1, <3>6, <3>7, <3>8
  <2> QED
    BY <2>8, <2>9, <2>10
<1>11. /\ Asked' = Asked /\ Disjoint' = Disjoint /\ Unmappable' = Unmappable
       /\ \A i, S : Used(i, S)' = Used(i, S)
  BY <1>1, SameMeaning
<1>12. \A i : Used(i, Seen(next))' = Used(i, Seen(next)')
  <2>1. PICK T : T = Seen(next)'
    OBVIOUS
  <2>2. \A i : Used(i, Seen(next))' = Used(i, T)'
    BY <2>1 DEF Used, Seen
  <2> QED
    BY <1>11, <2>1, <2>2
<1>13. at' = "records" /\ Disjoint' /\ ~Unmappable' =>
          /\ \A k \in DOMAIN posparams' : posparams'[k] \in table' \cup marked'
          /\ \A i \in table' : i \in marked' <=> Used(i, Seen(next))'
  BY <1>1, <1>10, <1>11, <1>12
<1> QED
  BY <1>4, <1>5, <1>6, <1>7, <1>11, <1>13 DEF MarksInv
\* The check after the last string of .strtab.
LEMMA MarksCheck ==
    ASSUME SelectionInv, MarksInv, CheckIdents, UNCHANGED <<argVars, elfVars>>
    PROVE  MarksInv'
<1>1. /\ at = "records" /\ next > Len(image.strtab) /\ image \in Images
      /\ UNCHANGED <<failures, argv, posparams, image, next, table, marked>>
      /\ at' = IF AllUsed THEN "collected" ELSE "uncollected"
  BY DEF CheckIdents, Goto, SelectionInv, CollectInv, argVars, elfVars, collectVars
<1>2. Seen(next) = image.tests
  <2>1. image.strtab \in Seq(ToSet(image.strtab))
    BY <1>1, ImageAssumption
  <2>2. /\ DOMAIN image.strtab = 1..Len(image.strtab) /\ Len(image.strtab) \in Nat
        /\ next \in Nat
    BY <2>1 DEF SelectionInv, CollectInv
  <2>3. \A i \in DOMAIN image.strtab : i \in 1..next - 1
    BY <1>1, <2>2
  <2>4. \A m \in image.tests : \E i \in DOMAIN image.strtab : image.strtab[i] = m
    BY <1>1, ImageAssumption
  <2> QED
    BY <2>3, <2>4 DEF Seen
<1>3. ~Unmappable
  BY <1>1, <1>2 DEF Unmappable, SelectionInv, CollectInv
<1>4. ASSUME Disjoint
      PROVE  \A i \in table : i \in marked <=> NamedBy(argv[i]) # {}
  <2>1. \A i \in table : i \in marked <=> Used(i, image.tests)
    BY <1>1, <1>2, <1>3, <1>4 DEF MarksInv
  <2>2. AllRecords = {Record(m) : m \in image.tests}
    BY <1>1, <1>3, RecordsHere
  <2> QED
    BY <2>1, <2>2 DEF Used, Names, NamedBy
<1>5. ASSUME Disjoint, AllUsed, failures = 0
      PROVE  \A id \in Asked : Checked(id) => NamedBy(id) # {}
  <2>1. ASSUME NEW k \in DOMAIN posparams, Checked(argv[posparams[k]])
        PROVE  NamedBy(argv[posparams[k]]) # {}
    <3>1. PICK i \in table : argv[i] = argv[posparams[k]]
      BY <1>1, <1>5 DEF SelectionInv, CollectInv, Entered
    <3>2. i \in marked
      BY <1>5, <2>1, <3>1 DEF SelectionInv, CollectInv, AllUsed, Checked
    <3> QED
      BY <1>4, <1>5, <3>1, <3>2
  <2> QED
    BY <2>1 DEF Asked
<1>6. ASSUME Disjoint, ~AllUsed
      PROVE  \E id \in Asked : Checked(id) /\ NamedBy(id) = {}
  <2>1. PICK k \in DOMAIN posparams : posparams[k] \notin marked /\ Checked(argv[posparams[k]])
    BY <1>6 DEF AllUsed, Checked
  <2>2. posparams[k] \in table
    BY <1>1, <1>3, <1>6, <2>1 DEF MarksInv
  <2>3. NamedBy(argv[posparams[k]]) = {}
    BY <1>4, <1>6, <2>1, <2>2
  <2> QED
    BY <2>1, <2>3 DEF Asked
<1>7. /\ Asked' = Asked /\ Disjoint' = Disjoint /\ Unmappable' = Unmappable
      /\ \A id : NamedBy(id)' = NamedBy(id)
  BY <1>1, SameMeaning
<1>8. /\ IsFiniteSet(marked') /\ \A i, j \in table' : argv'[i] = argv'[j] => i = j
  BY <1>1 DEF MarksInv
<1>9. at' = "collected" /\ Disjoint' /\ failures' = 0 =>
         \A id \in Asked' : Checked(id) => NamedBy(id)' # {}
  BY <1>1, <1>5, <1>7
<1>10. at' = "uncollected" /\ Disjoint' =>
          \E id \in Asked' : Checked(id) /\ NamedBy(id)' = {}
  BY <1>1, <1>6, <1>7
<1>11. at' \in {"collected", "uncollected"} /\ ~Unmappable'
  BY <1>1, <1>3, <1>7
<1> QED
  BY <1>8, <1>9, <1>10, <1>11 DEF MarksInv

\* Every step.
LEMMA MarksNext == SelectionInv /\ MarksInv /\ [Next]_vars => MarksInv'
<1> SUFFICES ASSUME SelectionInv, MarksInv, [Next]_vars PROVE MarksInv'
  OBVIOUS
<1>1. CASE ArgNext /\ UNCHANGED <<elfVars, collectVars>>
  <2>1. /\ at \in Early /\ at' \in {"options", "refused", "parsed"}
        /\ UNCHANGED <<table, marked>>
    BY <1>1 DEF ArgNext, ParseBegin, AddOption, ReadArgument, ParseEnd, Goto, Early, collectVars
  <2>2. table = {} /\ marked = {}
    BY <2>1 DEF SelectionInv, CollectInv
  <2> QED
    BY <2>1, <2>2, FS_EmptySet DEF MarksInv
<1>2. CASE StartRunner
  <2>1. /\ at \in Early /\ at' \in {"informed", "collect"} /\ UNCHANGED <<table, marked>>
    BY <1>2 DEF StartRunner, Goto, Early, collectVars
  <2>2. table = {} /\ marked = {}
    BY <2>1 DEF SelectionInv, CollectInv
  <2> QED
    BY <2>1, <2>2, FS_EmptySet DEF MarksInv
<1>3. CASE CollectNext /\ UNCHANGED <<argVars, elfVars>>
  <2>1. UNCHANGED <<argv, posparams, image>>
    BY <1>3 DEF argVars, elfVars
  <2>2. /\ Asked' = Asked /\ Disjoint' = Disjoint /\ Unmappable' = Unmappable
        /\ \A id : NamedBy(id)' = NamedBy(id)
        /\ \A i, S : Used(i, S)' = Used(i, S)
        /\ \A n : Seen(n)' = Seen(n)
    BY <2>1, SameMeaning
  <2>3. CASE CollectBegin
    <3>1. /\ at = "collect" /\ UNCHANGED <<next, table, marked, posparams>>
          /\ at' = IF posparams = << >> THEN "records" ELSE "idents"
      BY <1>3, <2>3 DEF CollectBegin, Goto, collectVars, argVars
    <3>2. table = {} /\ marked = {} /\ next = 1
      BY <3>1 DEF SelectionInv, CollectInv, Early
    <3>3. posparams = << >> => DOMAIN posparams = {}
      BY EmptySeq
    <3>4. {posparams[k] : k \in 1..next - 1} = {} /\ next <= Len(posparams) + 1
      BY <3>2, TablePositions DEF SelectionInv
    <3> QED
      BY <3>1, <3>2, <3>3, <3>4, FS_EmptySet DEF MarksInv
  <2>4. CASE HashIdent
    BY <1>3, <2>4, MarksHash
  <2>5. CASE HashedAll
    <3>1. /\ at = "idents" /\ at' = "records" /\ next > Len(posparams) /\ next' = 1
          /\ UNCHANGED <<table, marked, posparams, argv>>
      BY <1>3, <2>5 DEF HashedAll, Goto, argVars
    <3>2. /\ next \in Nat /\ DOMAIN posparams = 1..Len(posparams)
          /\ Len(posparams) \in Nat
      BY TablePositions DEF SelectionInv, CollectInv
    <3>3. /\ table \cup marked = {posparams[k] : k \in 1..next - 1}
          /\ table \cap marked = {}
      BY <3>1 DEF MarksInv
    <3>4. \A k \in DOMAIN posparams : k \in 1..next - 1
      BY <3>1, <3>2
    <3>5. \A k \in DOMAIN posparams : posparams[k] \in table \cup marked
      BY <3>3, <3>4
    <3>6. \A i : ~Used(i, Seen(next))'
      BY <3>1 DEF Used, Seen
    <3> QED
      BY <3>1, <3>3, <3>5, <3>6 DEF MarksInv
  <2>6. CASE MatchRecord
    BY <1>3, <2>6, MarksMatch
  <2>7. CASE CheckIdents
    BY <1>3, <2>7, MarksCheck
  <2>8. CASE CollectAux
    <3>1. /\ at = "collected" /\ at' = "execute"
          /\ UNCHANGED <<failures, table, marked, argv>>
      BY <1>3, <2>8 DEF CollectAux, Goto, argVars
    <3> QED
      BY <2>2, <3>1 DEF MarksInv
  <2> QED
    BY <1>3, <2>3, <2>4, <2>5, <2>6, <2>7, <2>8 DEF CollectNext
<1>4. CASE UNCHANGED vars
  <2>1. UNCHANGED <<at, failures, argv, posparams, image, next, table, marked>>
    BY <1>4 DEF vars, mainVars, argVars, elfVars, collectVars
  <2>2. /\ Asked' = Asked /\ Disjoint' = Disjoint /\ Unmappable' = Unmappable
        /\ \A id : NamedBy(id)' = NamedBy(id)
        /\ \A i, S : Used(i, S)' = Used(i, S)
    BY <2>1, SameMeaning
  <2>3. \A i : Used(i, Seen(next))' = Used(i, Seen(next))
    BY <2>1 DEF Used, Seen, Names, Record
  <2> QED
    BY <2>1, <2>2, <2>3 DEF MarksInv
<1> QED
  BY <1>1, <1>2, <1>3, <1>4 DEF Next, Ended

\* As long as no identifier names two tests and no test is named by two, the
\* collection fails only for an identifier that names nothing or a record that
\* cannot be found, and if no call fails it does fail for the former, unless a
\* byte below 2 as a signed char lets it pass: a mark stays within its own
\* string, whatever duplicates stand in between, and every identifier that is of
\* use gets one.
THEOREM Judgement == Spec => []JudgedIfDisjoint
<1>1. MarksInv => JudgedIfDisjoint
  BY DEF MarksInv, JudgedIfDisjoint, IdentifiersJudged, Disjoint
<1> QED
  BY <1>1, SelectionInit, SelectionNext, MarksInit, MarksNext, PTL DEF Spec

=============================================================================
