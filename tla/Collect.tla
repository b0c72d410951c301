------------------------------- MODULE Collect -------------------------------
(***************************************************************************)
(* The collection of the tests to run, cldm_collect.c: all of them, or     *)
(* those that the identifiers on the command line name.  An identifier     *)
(* that has been used is marked in place: the byte that ends the string    *)
(* becomes a 1.  The strings of argv follow each other in memory, so a     *)
(* string whose end is marked runs on into the next one.                   *)
(***************************************************************************)
EXTENDS ArgParse, ElfImage

CONSTANT
    Low   \* the chunks of an argument with a byte that, as a signed char, is
          \* below 2 and not null: those of a non-ASCII character, and a 1

VARIABLES
    next,     \* the loop variable
    table,    \* the identifiers in the hash table, by number
    marked,   \* the strings of argv, and of the environment behind it, whose
              \* end is overwritten
    tree,     \* the records collected
    auxprocs  \* the setup and teardown procedures

collectVars == <<next, table, marked, tree, auxprocs>>

AuxNames == {"global_setup", "global_teardown", "local_setup", "local_teardown"}

CollectInit ==
    /\ next = 1
    /\ table = {}
    /\ marked = {}
    /\ tree = {}
    /\ auxprocs = [p \in AuxNames |-> "null"]

\* Where strlen finds the end of string i, as the number of a string.
End(i) == CHOOSE j \in i..i + Cardinality(marked) :
             j \notin marked /\ \A k \in i..j - 1 : k \in marked

\* A name that starts with cldm_testrec_, and the record at its address.
IsRecord(name) == name \in image.tests
Record(name)   == image.memory[SymLookup(image, name)]

\* The names a record answers to, in the order they are tried.
Identifiers(r) == <<r.base, r.name>>

\* Slip: the comparison with an identifier goes on to where its end was marked.
Entry_marked(r) ==
    LET hit == SelectInSeq(Identifiers(r), LAMBDA n : \E i \in table \ marked : argv[i] = <<n>>)
    IN  IF hit = 0 THEN 0 ELSE CHOOSE i \in table : argv[i] = <<Identifiers(r)[hit]>>

\* cldm_ht_find for the first of them that is in the table, 0 if none is.
Entry(r) ==
    LET hit == SelectInSeq(Identifiers(r), LAMBDA n : \E i \in table : argv[i] = <<n>>)
    IN  IF hit = 0 THEN 0 ELSE CHOOSE i \in table : argv[i] = <<Identifiers(r)[hit]>>

\* cldm_collect or cldm_collect_from, as the runners choose.
CollectBegin ==
    /\ at = "collect"
    /\ Goto(IF posparams = << >> THEN "records" ELSE "idents")
    /\ UNCHANGED <<failures, collectVars>>

\* The next identifier is put into the hash table.  A duplicate, or one for
\* which the table could not grow, is exempt from the check at the end.
HashIdent ==
    /\ at = "idents"
    /\ next <= Len(posparams)
    /\ LET i   == posparams[next]
           dup == \E k \in table : argv[k] = argv[i]
       IN  \/ ~dup /\ Succeeds /\ table' = table \cup {i} /\ UNCHANGED marked
           \/ dup /\ Succeeds /\ marked' = marked \cup {End(i)} /\ UNCHANGED table
           \/ ~dup /\ Fails /\ marked' = marked \cup {End(i)} /\ UNCHANGED table
    /\ next' = next + 1
    /\ UNCHANGED <<at, tree, auxprocs>>

HashedAll ==
    /\ at = "idents"
    /\ next > Len(posparams)
    /\ next' = 1
    /\ Goto("records")
    /\ UNCHANGED <<failures, table, marked, tree, auxprocs>>

\* Slip: the null byte is not skipped, and is taken for an empty string.
NextString_null == IF image.strtab[next] = "" THEN next ELSE next + 1

\* The string behind the one at hand and its null byte.
NextString == next + 1

\* The next string of .strtab.  A record is inserted into the tree, always
\* or if one of its names is asked for.
MatchRecord ==
    /\ at = "records"
    /\ next <= Len(image.strtab)
    /\ LET name == image.strtab[next]
           r    == Record(name)
       IN  \/ ~IsRecord(name) /\ UNCHANGED <<at, marked, tree>>
           \/ /\ IsRecord(name) /\ SymLookup(image, name) = 0
              /\ Goto("uncollected")
              /\ UNCHANGED <<marked, tree>>
           \/ /\ IsRecord(name) /\ SymLookup(image, name) # 0 /\ posparams = << >>
              /\ tree' = tree \cup {r}
              /\ UNCHANGED <<at, marked>>
           \/ /\ IsRecord(name) /\ SymLookup(image, name) # 0 /\ posparams # << >>
              /\ IF Entry(r) = 0 THEN UNCHANGED <<marked, tree>>
                 ELSE tree' = tree \cup {r} /\ marked' = marked \cup {End(Entry(r))}
              /\ UNCHANGED at
    /\ next' = NextString
    /\ UNCHANGED <<failures, table, auxprocs>>

\* cldm_scan_lt looks for a byte below 2, and stops within the identifier if it
\* meets one there; what it has found is then not the null byte.
StopsWithin(id) == \E c \in DOMAIN id : id[c] \in Low

\* Slip: one identifier that was used is enough.
AllUsed_some ==
    posparams = << >>
        \/ \E k \in DOMAIN posparams : posparams[k] \in marked \/ StopsWithin(argv[posparams[k]])

\* The scan of no identifier ends at a null byte.
AllUsed ==
    \A k \in DOMAIN posparams : posparams[k] \in marked \/ StopsWithin(argv[posparams[k]])

CheckIdents ==
    /\ at = "records"
    /\ next > Len(image.strtab)
    /\ Goto(IF AllUsed THEN "collected" ELSE "uncollected")
    /\ UNCHANGED <<failures, collectVars>>

\* cldm_collect_auxprocs: an empty procedure where there is none.
CollectAux ==
    /\ at = "collected"
    /\ auxprocs' = [p \in AuxNames |-> IF SymLookup(image, p) = 0 THEN "empty" ELSE "own"]
    /\ Goto("execute")
    /\ UNCHANGED <<failures, next, table, marked, tree>>

CollectNext == CollectBegin \/ HashIdent \/ HashedAll \/ MatchRecord \/ CheckIdents \/ CollectAux

-----------------------------------------------------------------------------
\* What a user means: the records in memory, those an identifier names, and
\* the tests that are to be run.
AllRecords  == {image.memory[a] : a \in DOMAIN image.memory}
NamedBy(id) == {r \in AllRecords : id \in {<<r.base>>, <<r.name>>}}
Asked       == {argv[posparams[k]] : k \in DOMAIN posparams}
Wanted      == IF Asked = {} THEN AllRecords ELSE UNION {NamedBy(id) : id \in Asked}
=============================================================================
