---------------------------- MODULE SymbolProofs -----------------------------
(***************************************************************************)
(* The symbol cache, for any libraries, any symbols and any depth: every   *)
(* library that was opened is closed, and as long as no mocked function    *)
(* calls itself, a wrapper finds the first library that defines its        *)
(* symbol.                                                                 *)
(***************************************************************************)
EXTENDS SymbolCache, FiniteSetTheorems, WellFoundedInduction, TLAPS

-----------------------------------------------------------------------------
(* Libraries and blocks.                                                   *)

\* What has been closed follows from where the program is.
Closed ==
    /\ state \in {"load", "run", "missing", "uncached", "unresolved"} =>
          \A h \in Handles : closings[h] = 0
    /\ state \in {"freed", "ended"} => \A h \in Handles : closings[h] > 0 <=> h < loaded

\* The cache is in a block only once it has outgrown the static array.
Block ==
    /\ capacity = 0 \/ capacity >= StaticLookup
    /\ heap => capacity > StaticLookup
    /\ state = "ended" => ~heap

Books ==
    /\ loaded \in Nat /\ capacity \in Nat
    /\ heap \in BOOLEAN
    /\ closings \in [Handles -> Nat]
    /\ state \in {"load", "run", "freed", "ended", "missing", "uncached", "unresolved"}
    /\ Closed
    /\ Block

-----------------------------------------------------------------------------
(* The entries that a lookup may come to.                                  *)

Entry == [name : Symbols, addr : Nat \cup {Null}, loadidx : Nat, resolved : BOOLEAN]

Frames == [sym : Symbols, addr : Nat \cup {Null}, back : BOOLEAN]

\* Those in the table, and the first one, whose name may come back into it.
Live == {i \in DOMAIN entries : i = 0 \/ \E x \in DOMAIN table : table[x] = i}

\* The entries in table t come before the next free one, and have the names
\* they are found by.
Placed(t) ==
    /\ IsFiniteSet(DOMAIN t)
    /\ DOMAIN t # {} => 0 \in DOMAIN entries
    /\ \A x \in DOMAIN t :
          /\ t[x] \in Nat
          /\ t[x] \in DOMAIN entries
          /\ t[x] < Cardinality(DOMAIN t)
          /\ IF x \in Symbols THEN entries[t[x]].name = x ELSE t[x] = 0

\* No library before h defines s.
NoneBefore(s, h) == \A k \in 0..(loaded - 1) : k < h => exports[s][k] # "real"

\* An entry says where the last search ended, having passed by no definition.
Searched(e) ==
    /\ e.addr = Sym(e.loadidx)
    /\ NoneBefore(e.name, e.loadidx)

\* The innermost wrapper for e.name runs what e holds.
Innermost(e) ==
    \E k \in 1..Len(stack) :
        /\ stack[k].sym = e.name
        /\ stack[k].addr = e.addr
        /\ \A j \in (k + 1)..Len(stack) : stack[j].sym # e.name

\* What is resolved is no wrapper, and what is not is being run.
Settled(e) ==
    /\ e.addr # Null
    /\ e.resolved => exports[e.name][e.addr] # "mock"
    /\ ~e.resolved => Innermost(e)

\* Of two entries for one symbol, one is resolved.
Single(t) ==
    0 \in DOMAIN entries /\ ~entries[0].resolved /\ entries[0].name \in DOMAIN t
        => t[entries[0].name] = 0

Cached ==
    /\ Placed(table)
    /\ \A i \in Live : entries[i] \in Entry /\ Searched(entries[i]) /\ Settled(entries[i])
    /\ Single(table)

-----------------------------------------------------------------------------
(* The wrappers that are running.                                          *)

\* A wrapper that found itself has called nothing else.
Chains ==
    \A i \in 1..(Len(stack) - 1) : Again(stack[i]) => stack[i + 1].sym = stack[i].sym

\* The innermost wrapper runs what its entry holds, until a call has come
\* back to it; one that found itself has then been resolved.
Top ==
    stack # << >> =>
        /\ ~Calling.back => /\ Calling.sym \in DOMAIN table
                            /\ entries[table[Calling.sym]].addr = Calling.addr
        /\ Calling.back /\ Again(Calling) =>
              \A i \in Live : entries[i].name = Calling.sym => entries[i].resolved

Running ==
    state = "run" =>
        /\ Cached
        /\ Chains
        /\ Top
        /\ \A i \in 1..Len(stack) : stack[i].addr # Null

\* Before the first lookup there is nothing, and at the end nothing runs.
Idle ==
    /\ state = "load" => table = << >> /\ entries = << >> /\ stack = << >>
    /\ state = "freed" => stack = << >>

\* A wrapper has passed by no library that defines its symbol.
PassedNone ==
    \A i \in 1..Len(stack) :
        IF stack[i].addr = Null THEN NoneBefore(stack[i].sym, loaded)
                                ELSE NoneBefore(stack[i].sym, stack[i].addr)

Lookups ==
    /\ stack \in Seq(Frames)
    /\ Idle
    /\ Running
    /\ PassedNone
    /\ WrapperAdvances

-----------------------------------------------------------------------------
(* Libraries and blocks.                                                   *)

\* A call leaves the handles alone, and moves the cache only as it grows.
LEMMA CallBooks ==
    ASSUME NEW s \in Symbols, Books, Call(s)
    PROVE  Books'
<1> USE LookupAssumption
<1>1. /\ UNCHANGED <<exports, loaded, needed, closings>>
      /\ state = "run"
  BY DEF Call
<1>2. state' \in {"run", "missing", "uncached"}
  <2>1. ASSUME NEW a, Invoke(s, a) PROVE state' \in {"run", "missing"}
    BY <1>1, <2>1 DEF Invoke
  <2>2. ASSUME LookupAgain(s) PROVE state' \in {"run", "missing"}
    <3> HIDE DEF Invoke
    <3> QED
      BY <2>1, <2>2 DEF LookupAgain
  <2>3. ASSUME NEW t, AddTo(t, s) PROVE state' \in {"run", "missing", "uncached"}
    BY <2>1, <2>3 DEF AddTo, NoAnswer
  <2>4. ASSUME LookupFirst(s) PROVE state' \in {"run", "missing", "uncached"}
    BY <2>3, <2>4 DEF LookupFirst, NoAnswer
  <2> QED
    BY <2>2, <2>4 DEF Call
<1>3. \/ UNCHANGED <<capacity, heap>>
      \/ capacity' = Capacity /\ UNCHANGED heap
      \/ capacity' = 2 * Capacity /\ heap' = TRUE
  <2> HIDE DEF AddTo, Capacity
  <2>1. LookupAgain(s) => UNCHANGED <<capacity, heap>>
    BY DEF LookupAgain
  <2>2. ASSUME LookupFirst(s)
        PROVE  \/ UNCHANGED <<capacity, heap>>
               \/ capacity' = Capacity /\ UNCHANGED heap
               \/ capacity' = 2 * Capacity /\ heap' = TRUE
    BY <2>2, Zenon DEF LookupFirst, cache
  <2> QED
    BY <2>1, <2>2 DEF Call
<1>4. Capacity \in Nat /\ Capacity >= StaticLookup /\ Capacity >= capacity
  BY DEF Books, Block, Capacity
<1>5. /\ capacity' \in Nat
      /\ capacity' = 0 \/ capacity' >= StaticLookup
      /\ heap' => capacity' > StaticLookup
      /\ heap' \in BOOLEAN
  <2>1. CASE UNCHANGED <<capacity, heap>>
    BY <2>1 DEF Books, Block
  <2>2. CASE capacity' = Capacity /\ UNCHANGED heap
    <3>1. heap => capacity > StaticLookup
      BY DEF Books, Block
    <3> QED
      BY <1>4, <2>2, <3>1 DEF Books
  <2>3. CASE capacity' = 2 * Capacity /\ heap' = TRUE
    BY <1>4, <2>3
  <2> QED
    BY <1>3, <2>1, <2>2, <2>3
<1>6. Closed'
  BY <1>1, <1>2 DEF Books, Closed
<1> QED
  BY <1>1, <1>2, <1>5, <1>6 DEF Books, Block

\* Every step keeps the books.
LEMMA BooksKept == Books /\ [Next]_vars => Books'
<1> SUFFICES ASSUME Books, [Next]_vars PROVE Books'
  OBVIOUS
<1> USE LookupAssumption
<1>1. CASE MapNeeded
  <2>1. state = "load" /\ UNCHANGED <<capacity, heap>>
    BY <1>1 DEF MapNeeded, cache
  <2>2. CASE CloseAll /\ state' = "freed" /\ loaded' = loaded
    <3>1. \A h \in Handles : closings[h] = 0
      BY <2>1 DEF Books, Closed
    <3>2. closings' = [h \in Handles |-> IF h < loaded THEN 1 ELSE 0]
      BY <2>2, <3>1 DEF CloseAll
    <3> QED
      BY <2>1, <2>2, <3>2 DEF Books, Closed, Block
  <2>3. CASE loaded' \in {loaded, loaded + 1} /\ UNCHANGED <<closings, state>>
    BY <2>1, <2>3 DEF Books, Closed, Block
  <2> QED
    BY <1>1, <2>2, <2>3 DEF MapNeeded
<1>2. CASE MapDone
  BY <1>2 DEF MapDone, cache, Books, Closed, Block
<1>3. CASE \E s \in Symbols : Call(s)
  BY <1>3, CallBooks
<1>4. CASE Return
  <2>1. /\ UNCHANGED <<loaded, closings, capacity, heap>>
        /\ state = "run" /\ state' \in {"run", "unresolved"}
    BY <1>4 DEF Return
  <2> QED
    BY <2>1 DEF Books, Closed, Block
<1>5. CASE DlFree
  <2>1. /\ state \in {"run", "freed"} /\ state' = "ended"
        /\ heap' = Released /\ CloseAll /\ UNCHANGED <<loaded, capacity>>
    BY <1>5 DEF DlFree
  <2>2. heap' = FALSE
    <3>1. Released = FALSE
      <4>1. ~Released
        BY DEF Released, Books, Block
      <4>2. Released \in BOOLEAN
        BY Zenon DEF Released
      <4> QED
        BY <4>1, <4>2
    <3> QED
      BY <2>1, <3>1
  <2>3. /\ closings' \in [Handles -> Nat]
        /\ \A h \in Handles : closings'[h] > 0 <=> h < loaded
    <3> USE DEF Books, Closed
    <3>1. ASSUME NEW h \in Handles
          PROVE  closings'[h] \in Nat /\ (closings'[h] > 0 <=> h < loaded)
      <4>1. closings[h] \in Nat /\ closings'[h] = IF h < loaded THEN closings[h] + 1 ELSE closings[h]
        BY <2>1 DEF CloseAll
      <4>2. closings[h] > 0 => h < loaded
        BY <2>1
      <4> QED
        BY <4>1, <4>2
    <3> QED
      BY <2>1, <3>1 DEF CloseAll
  <2> QED
    BY <2>1, <2>2, <2>3 DEF Books, Closed, Block
<1>6. CASE UNCHANGED vars
  BY <1>6 DEF vars, Books, Closed, Block
<1> QED
  BY <1>1, <1>2, <1>3, <1>4, <1>5, <1>6 DEF Next, Finished

\* They are right in the beginning.
LEMMA BooksInitially == Init => Books
<1> SUFFICES ASSUME Init PROVE Books
  OBVIOUS
<1>1. closings \in [Handles -> Nat] /\ \A h \in Handles : closings[h] = 0
  BY DEF Init
<1> QED
  BY <1>1, LookupAssumption DEF Init, Books, Closed, Block

\* The handles, the closings and the block agree at any moment.
THEOREM BooksHold == Spec => []Books
BY BooksInitially, BooksKept, PTL DEF Spec

\* At the end the cache has no block, and the libraries that were closed are
\* those that had been opened, whatever call has failed.
THEOREM Releases == Spec => []AllReleased
<1>1. Books => AllReleased
  BY DEF Books, Closed, Block, AllReleased
<1> QED
  BY <1>1, BooksHold, PTL

-----------------------------------------------------------------------------
(* The search.                                                             *)

\* The usual order of the natural numbers, as a relation.
Below == {p \in Nat \X Nat : p[1] < p[2]}

\* The least element of a set of natural numbers, which Min takes.
LEMMA MinIsLeast ==
    ASSUME NEW S, S \subseteq Nat, S # {}
    PROVE  Min(S) \in S /\ \A m \in S : Min(S) <= m
<1>1. IsWellFoundedOn(Below, Nat)
  BY NatLessThanWellFounded DEF Below, OpToRel
<1>2. PICK n \in S : \A m \in S : <<m, n>> \notin Below
  BY <1>1, WFMin
<1>3. ASSUME NEW m \in S PROVE n =< m
  <2>1. m \in Nat /\ n \in Nat
    OBVIOUS
  <2>2. <<m, n>> \in Nat \X Nat /\ <<m, n>>[1] = m /\ <<m, n>>[2] = n
    BY <2>1
  <2>3. ~(m < n)
    BY <1>2, <2>2 DEF Below
  <2> QED
    BY <2>1, <2>3
<1> QED
  BY <1>3 DEF Min

\* The search ends behind every library it has passed by.
LEMMA FoundPasses ==
    ASSUME NEW s, loaded \in Nat, From(s) \in Nat
    PROVE  /\ Found(s) \in Nat /\ Found(s) >= From(s)
           /\ \A k \in 0..(loaded - 1) :
                 From(s) <= k /\ k < Found(s) => exports[s][k] # "real"
<1> DEFINE S == {h \in 0..(loaded - 1) : h >= From(s) /\ exports[s][h] # "none"}
           top == Max({From(s), loaded})
<1> HIDE DEF From
<1>1. top \in Nat /\ top >= From(s) /\ top >= loaded
  BY DEF Max
<1>2. S \cup {top} \subseteq Nat /\ S \cup {top} # {}
  BY <1>1
<1>3. Found(s) \in S \cup {top} /\ \A m \in S \cup {top} : Found(s) <= m
  BY <1>2, MinIsLeast DEF Found
<1> HIDE DEF top
<1>4. Found(s) \in Nat /\ Found(s) >= From(s)
  BY <1>1, <1>3
<1>5. ASSUME NEW k \in 0..(loaded - 1), From(s) <= k, k < Found(s)
      PROVE  exports[s][k] # "real"
  <2>1. k \notin S
    BY <1>3, <1>4, <1>5
  <2> QED
    BY <1>5, <2>1
<1> QED
  BY <1>4, <1>5

-----------------------------------------------------------------------------
(* A call of a mocked function.                                            *)

\* Is a wrapper for s running?
Runs(s) == \E i \in 1..Len(stack) : stack[i].sym = s

\* The frame that the wrapper for s gets.
Frame(s, a) == [sym |-> s, addr |-> a, back |-> FALSE]

\* The stack with one more frame.
LEMMA Pushed ==
    ASSUME NEW s \in Symbols, NEW a \in Nat \cup {Null}, stack \in Seq(Frames),
           stack' = Append(stack, Frame(s, a))
    PROVE  /\ stack' \in Seq(Frames)
           /\ Len(stack) \in Nat /\ Len(stack') = Len(stack) + 1
           /\ \A i \in 1..Len(stack) : stack'[i] = stack[i]
           /\ stack'[Len(stack) + 1] = Frame(s, a)
           /\ stack' # << >> /\ Calling' = Frame(s, a)
<1>1. Frame(s, a) \in Frames
  BY DEF Frame, Frames
<1> HIDE DEF Frame, Frames
<1> QED
  BY <1>1 DEF Calling

\* Without recursion, a function is called while its wrapper runs only by
\* that wrapper, which has just found itself.
LEMMA CalledBy ==
    ASSUME Recursion = FALSE, NEW s \in Symbols, MayCall(s), Runs(s), stack \in Seq(Frames)
    PROVE  /\ stack # << >> /\ Again(Calling)
           /\ ~Calling.back /\ s = Calling.sym
<1>1. stack # << >>
  BY DEF Runs
<1> HIDE DEF Again, Calling
<1> QED
  BY <1>1 DEF MayCall, Runs

\* Only the entry in the table is unresolved.
LEMMA OnlyOne ==
    ASSUME Cached, NEW s \in Symbols, s \in DOMAIN table,
           NEW j \in Live, ~entries[j].resolved, entries[j].name = s
    PROVE  j = table[s]
<1>1. CASE j = 0
  BY <1>1 DEF Cached, Single, Live
<1>2. CASE j # 0
  <2>1. PICK x \in DOMAIN table : table[x] = j
    BY <1>2 DEF Live
  <2>2. x \in Symbols /\ entries[j].name = x
    BY <1>2, <2>1 DEF Cached, Placed
  <2> QED
    BY <2>1, <2>2
<1> QED
  BY <1>1, <1>2

\* The entry of a symbol in the table.
LEMMA EntryOf ==
    ASSUME Cached, NEW s \in Symbols, s \in DOMAIN table
    PROVE  /\ table[s] \in Live
           /\ entries[table[s]] \in Entry
           /\ entries[table[s]].name = s
           /\ Searched(entries[table[s]])
           /\ Settled(entries[table[s]])
<1>1. table[s] \in DOMAIN entries /\ entries[table[s]].name = s
  BY DEF Cached, Placed
<1>2. table[s] \in Live
  BY <1>1 DEF Live
<1> QED
  BY <1>1, <1>2 DEF Cached

\* An unresolved entry belongs to a wrapper that runs.
LEMMA UnresolvedRuns ==
    ASSUME Cached, NEW j \in Live, ~entries[j].resolved
    PROVE  Runs(entries[j].name)
BY DEF Cached, Settled, Innermost, Runs

\* One more wrapper that has passed by no definition, and that is further on
\* than the one that called it, if that found itself.
LEMMA PushKeeps ==
    ASSUME Recursion = FALSE, Lookups, state = "run",
           NEW s \in Symbols, NEW a \in Nat \cup {Null}, MayCall(s),
           stack' = Append(stack, Frame(s, a)), UNCHANGED <<exports, loaded>>,
           IF a = Null THEN NoneBefore(s, loaded) ELSE NoneBefore(s, a),
           Runs(s) /\ a # Null => Calling.addr < a
    PROVE  /\ stack' \in Seq(Frames)
           /\ Chains' /\ PassedNone' /\ WrapperAdvances'
           /\ a # Null => \A i \in 1..Len(stack') : stack'[i].addr # Null
<1> DEFINE n == Len(stack)
<1>1. /\ stack \in Seq(Frames) /\ Chains /\ PassedNone /\ WrapperAdvances
      /\ \A i \in 1..n : stack[i].addr # Null
  BY DEF Lookups, Running
<1>2. /\ stack' \in Seq(Frames)
      /\ n \in Nat /\ Len(stack') = n + 1
      /\ \A i \in 1..n : stack'[i] = stack[i]
      /\ stack'[n + 1] = Frame(s, a)
  BY <1>1, Pushed
<1>3. Frame(s, a).sym = s /\ Frame(s, a).addr = a
  BY DEF Frame
<1>4. \A i \in 1..n : stack[i] \in Frames
  BY <1>1
<1>5. Calling = stack[n] /\ (n # 0 <=> stack # << >>)
  BY <1>1 DEF Calling
<1> HIDE DEF n
<1>6. Chains'
  <2>1. ASSUME NEW i \in 1..n, Again(stack[i])
        PROVE  stack'[i + 1].sym = stack[i].sym
    <3>1. CASE i < n
      BY <1>1, <1>2, <2>1, <3>1 DEF Chains, n
    <3>2. CASE i = n
      <4>1. Again(Calling) /\ stack # << >>
        BY <1>2, <1>5, <2>1, <3>2
      <4>2. s = Calling.sym
        BY <4>1, Zenon DEF MayCall
      <4> QED
        BY <1>2, <1>3, <1>5, <3>2, <4>2
    <3> QED
      BY <1>2, <3>1, <3>2
  <2> QED
    BY <1>2, <2>1 DEF Chains, Again
<1>7. PassedNone'
  <2>1. ASSUME NEW i \in 1..(n + 1)
        PROVE  IF stack'[i].addr = Null THEN NoneBefore(stack'[i].sym, loaded)
                                        ELSE NoneBefore(stack'[i].sym, stack'[i].addr)
    <3>1. CASE i \in 1..n
      BY <1>1, <1>2, <3>1 DEF PassedNone, n
    <3>2. CASE i = n + 1
      BY <1>2, <1>3, <3>2
    <3> QED
      BY <1>2, <2>1, <3>1, <3>2
  <2> QED
    BY <1>2, <2>1 DEF PassedNone, NoneBefore
<1>8. WrapperAdvances'
  <2>1. ASSUME NEW i \in 1..(n + 1), NEW j \in 1..(n + 1), i < j,
               stack'[i].sym = stack'[j].sym, Again(stack'[i]), stack'[j].addr # Null
        PROVE  stack'[i].addr < stack'[j].addr
    <3>1. i \in 1..n /\ stack'[i] = stack[i]
      BY <1>2, <2>1
    <3>2. CASE j \in 1..n
      BY <1>1, <1>2, <2>1, <3>1, <3>2 DEF WrapperAdvances, n
    <3>3. CASE j = n + 1
      <4>1. stack[i].sym = s /\ a # Null
        BY <1>2, <1>3, <2>1, <3>1, <3>3
      <4>2. Runs(s)
        BY <3>1, <4>1 DEF Runs, n
      <4>3. Calling.sym = s /\ Calling.addr < a
        BY <1>1, <4>1, <4>2, CalledBy
      <4>4. CASE i = n
        BY <1>2, <1>3, <1>5, <3>1, <3>3, <4>3, <4>4
      <4>5. CASE i < n
        <5>1. n \in 1..n /\ i < n /\ stack[i].sym = stack[n].sym /\ stack[n].addr # Null
          BY <1>1, <1>2, <1>5, <3>1, <4>1, <4>3, <4>5
        <5>2. stack[i].addr < stack[n].addr
          BY <1>1, <2>1, <3>1, <5>1 DEF WrapperAdvances, n
        <5>3. stack[i].addr \in Nat /\ stack[n].addr \in Nat /\ a \in Nat
          BY <1>1, <1>4, <3>1, <4>1, <5>1 DEF Frames
        <5> QED
          BY <1>2, <1>3, <1>5, <3>1, <3>3, <4>3, <5>2, <5>3
      <4> QED
        BY <1>2, <3>1, <4>4, <4>5
    <3> QED
      BY <1>2, <2>1, <3>2, <3>3
  <2> QED
    BY <1>2, <2>1 DEF WrapperAdvances, Again
<1>9. ASSUME a # Null, NEW i \in 1..(n + 1) PROVE stack'[i].addr # Null
  <2>1. CASE i \in 1..n
    BY <1>1, <1>2, <2>1
  <2>2. CASE i = n + 1
    BY <1>2, <1>3, <1>9, <2>2
  <2> QED
    BY <1>2, <1>9, <2>1, <2>2
<1> QED
  BY <1>2, <1>6, <1>7, <1>8, <1>9

\* A wrapper that runs already holds what its entry does, which is unresolved.
LEMMA RunsUnresolved ==
    ASSUME Recursion = FALSE, Lookups, state = "run",
           NEW s \in Symbols, MayCall(s), Runs(s)
    PROVE  /\ s \in DOMAIN table
           /\ ~entries[table[s]].resolved
           /\ entries[table[s]].addr = Calling.addr
           /\ Calling.addr # Null /\ exports[s][Calling.addr] = "mock"
<1>1. /\ stack # << >> /\ Again(Calling)
      /\ ~Calling.back /\ s = Calling.sym
  BY CalledBy DEF Lookups
<1>2. Top /\ Cached
  BY DEF Lookups, Running
<1>3. s \in DOMAIN table /\ entries[table[s]].addr = Calling.addr
  BY <1>1, <1>2 DEF Top
<1>4. Calling.addr # Null /\ exports[s][Calling.addr] = "mock"
  BY <1>1 DEF Again
<1>5. Settled(entries[table[s]]) /\ entries[table[s]].name = s
  BY <1>2, <1>3, EntryOf
<1> QED
  BY <1>3, <1>4, <1>5 DEF Settled

\* What is not about the entry for s stays true of a live entry.
LEMMA OthersKeep ==
    ASSUME Lookups, NEW s \in Symbols, NEW a \in Nat \cup {Null},
           stack' = Append(stack, Frame(s, a)), UNCHANGED <<exports, loaded>>,
           NEW e, Searched(e), Settled(e), e.resolved \/ e.name # s
    PROVE  Searched(e)' /\ Settled(e)'
<1> DEFINE n == Len(stack)
<1>1. /\ n \in Nat /\ Len(stack') = n + 1
      /\ \A i \in 1..n : stack'[i] = stack[i]
      /\ stack'[n + 1] = Frame(s, a)
  BY Pushed DEF Lookups
<1> HIDE DEF n
<1>2. ASSUME ~e.resolved PROVE Innermost(e)'
  <2>1. PICK k \in 1..n : /\ stack[k].sym = e.name
                          /\ stack[k].addr = e.addr
                          /\ \A j \in (k + 1)..n : stack[j].sym # e.name
    BY <1>2 DEF Settled, Innermost, n
  <2>2. ASSUME NEW j \in (k + 1)..(n + 1) PROVE stack'[j].sym # e.name
    <3>1. CASE j \in (k + 1)..n
      BY <1>1, <2>1, <3>1
    <3>2. CASE j = n + 1
      BY <1>1, <1>2, <3>2 DEF Frame
    <3> QED
      BY <1>1, <2>2, <3>1, <3>2
  <2>3. k \in 1..(n + 1) /\ stack'[k].sym = e.name /\ stack'[k].addr = e.addr
    BY <1>1, <2>1
  <2> QED
    BY <1>1, <2>2, <2>3 DEF Innermost
<1> QED
  BY <1>2 DEF Searched, NoneBefore, Sym, Settled

\* An entry that the newest wrapper has just been given.
LEMMA NewestKept ==
    ASSUME Lookups, NEW s \in Symbols, NEW a \in Nat \cup {Null},
           stack' = Append(stack, Frame(s, a)), UNCHANGED <<exports, loaded>>,
           NEW e, e.name = s, e.addr = a, a # Null, ~e.resolved
    PROVE  Settled(e)'
<1> DEFINE n == Len(stack)
<1>1. n \in Nat /\ Len(stack') = n + 1 /\ stack'[n + 1] = Frame(s, a)
  BY Pushed DEF Lookups
<1> HIDE DEF n
<1>2. stack'[n + 1].sym = e.name /\ stack'[n + 1].addr = e.addr
  BY <1>1 DEF Frame
<1>3. (n + 1) \in 1..(n + 1) /\ \A j \in (n + 2)..(n + 1) : FALSE
  BY <1>1
<1>4. Innermost(e)'
  BY <1>1, <1>2, <1>3 DEF Innermost
<1> QED
  BY <1>4 DEF Settled

\* A lookup that is answered out of the cache.
LEMMA ResolvedKeeps ==
    ASSUME Recursion = FALSE, Lookups, state = "run",
           NEW s \in Symbols, MayCall(s), s \in DOMAIN table,
           entries[table[s]].resolved,
           Invoke(s, entries[table[s]].addr),
           UNCHANGED <<exports, loaded, entries, table>>
    PROVE  Lookups'
<1>2. Cached
  BY DEF Lookups, Running
<1>3. PICK e : e = entries[table[s]]
  OBVIOUS
<1>4. /\ e \in Entry /\ e.name = s /\ e.resolved
      /\ Searched(e) /\ Settled(e)
  BY <1>2, <1>3, EntryOf
<1>5. PICK a : a = e.addr
  OBVIOUS
<1>6. a \in Nat /\ a \in Nat \cup {Null} /\ a # Null /\ a = e.loadidx /\ NoneBefore(s, a)
  BY <1>4, <1>5 DEF Entry, Searched, Settled, Sym, Null
<1>7. stack' = Append(stack, Frame(s, a)) /\ state' = "run"
  BY <1>3, <1>5, <1>6 DEF Invoke, Frame
<1>8. ~Runs(s)
  BY RunsUnresolved
<1>9. /\ stack' \in Seq(Frames)
      /\ Chains' /\ PassedNone' /\ WrapperAdvances'
      /\ \A i \in 1..Len(stack') : stack'[i].addr # Null
  BY <1>6, <1>7, <1>8, PushKeeps
<1>10. Cached'
  <2>1. Live' = Live
    BY DEF Live
  <2>2. Placed(table)' /\ Single(table)'
    BY <1>2 DEF Cached, Placed, Single
  <2>3. ASSUME NEW i \in Live
        PROVE  entries'[i] \in Entry /\ Searched(entries[i])' /\ Settled(entries[i])'
    <3>1. PICK x : x = entries[i]
      OBVIOUS
    <3>2. x \in Entry /\ Searched(x) /\ Settled(x)
      BY <1>2, <3>1 DEF Cached
    <3>3. x.resolved \/ x.name # s
      BY <1>2, <1>8, <3>1, UnresolvedRuns
    <3>4. Searched(x)' /\ Settled(x)'
      BY <1>6, <1>7, <3>2, <3>3, OthersKeep
    <3>5. entries'[i] = x
      BY <3>1
    <3> QED
      BY <3>2, <3>4, <3>5 DEF Searched, Settled, Innermost
  <2> QED
    BY <2>1, <2>2, <2>3 DEF Cached
<1>11. Top'
  <2>1. Calling' = Frame(s, a)
    BY <1>6, <1>7, Pushed DEF Lookups
  <2>2. /\ Frame(s, a).sym = s /\ Frame(s, a).addr = a /\ Frame(s, a).back = FALSE
    BY DEF Frame
  <2> QED
    BY <1>3, <1>5, <2>1, <2>2 DEF Top
<1> QED
  BY <1>7, <1>9, <1>10, <1>11 DEF Lookups, Idle, Running

\* A lookup by a wrapper that has found itself.
LEMMA SearchedOn ==
    ASSUME Recursion = FALSE, Books, Lookups, state = "run",
           NEW s \in Symbols, MayCall(s), s \in DOMAIN table,
           ~entries[table[s]].resolved,
           NEW h, h = Found(s), Invoke(s, Sym(h)),
           entries' = [entries EXCEPT ![table[s]].addr = Sym(h), ![table[s]].loadidx = h],
           UNCHANGED <<exports, loaded, table>>
    PROVE  Lookups'
<1>1. Cached /\ loaded \in Nat
  BY DEF Lookups, Running, Books
<1>2. PICK t : t = table[s]
  OBVIOUS
<1>3. PICK e : e = entries[t]
  OBVIOUS
<1>4. /\ t \in Live /\ e \in Entry /\ e.name = s /\ ~e.resolved
      /\ Searched(e) /\ Settled(e)
  BY <1>1, <1>2, <1>3, EntryOf
<1>5. Runs(s)
  BY <1>1, <1>2, <1>3, <1>4, UnresolvedRuns
<1>6. e.addr = Calling.addr /\ e.addr # Null /\ exports[s][e.addr] = "mock"
  BY <1>2, <1>3, <1>5, RunsUnresolved
<1>7. e.loadidx \in Nat /\ e.addr = e.loadidx /\ e.loadidx < loaded
  BY <1>4, <1>6 DEF Searched, Sym, Entry
<1>8. From(s) = e.loadidx + 1
  BY <1>2, <1>3 DEF From
<1>9. h \in Nat /\ h >= e.loadidx + 1
  BY <1>1, <1>7, <1>8, FoundPasses
<1>10. NoneBefore(s, h)
  <2>1. ASSUME NEW k \in 0..(loaded - 1), k < h PROVE exports[s][k] # "real"
    <3>1. CASE k < e.loadidx
      BY <1>4, <2>1, <3>1 DEF Searched, NoneBefore
    <3>2. CASE k = e.loadidx
      BY <1>6, <1>7, <3>2
    <3>3. CASE k > e.loadidx
      <4>1. From(s) \in Nat /\ From(s) <= k
        BY <1>7, <1>8, <3>3, <2>1
      <4> QED
        BY <1>1, <2>1, <4>1, FoundPasses
    <3> QED
      BY <1>1, <1>7, <2>1, <3>1, <3>2, <3>3
  <2> QED
    BY <2>1 DEF NoneBefore
<1>11. PICK a : a = Sym(h)
  OBVIOUS
<1>12. /\ a \in Nat \cup {Null}
       /\ a # Null => a = h /\ Calling.addr < a
       /\ a = Null => h >= loaded
  BY <1>1, <1>6, <1>7, <1>9, <1>11 DEF Sym, Null
<1>13. IF a = Null THEN NoneBefore(s, loaded) ELSE NoneBefore(s, a)
  BY <1>1, <1>9, <1>10, <1>12 DEF NoneBefore
<1>14. /\ stack' = Append(stack, Frame(s, a))
       /\ state' = IF a = Null THEN "missing" ELSE "run"
  BY <1>11 DEF Invoke, Frame
<1>15. /\ stack' \in Seq(Frames)
       /\ Chains' /\ PassedNone' /\ WrapperAdvances'
       /\ a # Null => \A i \in 1..Len(stack') : stack'[i].addr # Null
  BY <1>12, <1>13, <1>14, PushKeeps
<1>16. PICK x : x = [e EXCEPT !.addr = a, !.loadidx = h]
  OBVIOUS
<1>17. /\ x \in Entry /\ x.name = s /\ x.addr = a /\ x.loadidx = h /\ ~x.resolved
  BY <1>4, <1>9, <1>12, <1>16 DEF Entry
<1>18. /\ DOMAIN entries' = DOMAIN entries
       /\ entries'[t] = x
       /\ \A i \in DOMAIN entries : i # t => entries'[i] = entries[i]
  <2>1. t \in DOMAIN entries
    BY <1>4 DEF Live
  <2> QED
    BY <1>2, <1>3, <1>11, <1>16, <2>1
<1>19. Live' = Live
  BY <1>18 DEF Live
<1>20. ASSUME a # Null PROVE Cached'
  <2>1. Placed(table)'
    <3>1. ASSUME NEW y \in DOMAIN table, y \in Symbols
          PROVE  entries'[table[y]].name = y
      <4>1. table[y] \in DOMAIN entries /\ entries[table[y]].name = y
        BY <1>1, <3>1 DEF Cached, Placed
      <4> QED
        BY <1>3, <1>4, <1>17, <1>18, <4>1
    <3>2. Placed(table)
      BY <1>1 DEF Cached
    <3> QED
      BY <1>18, <3>1, <3>2 DEF Placed
  <2>2. Single(table)'
    <3>1. ASSUME 0 \in DOMAIN entries
          PROVE  entries'[0].name = entries[0].name /\ (entries'[0].resolved <=> entries[0].resolved)
      BY <1>3, <1>4, <1>17, <1>18, <3>1
    <3>2. Single(table)
      BY <1>1 DEF Cached
    <3> QED
      BY <1>18, <3>1, <3>2 DEF Single
  <2>3. ASSUME NEW i \in Live
        PROVE  entries'[i] \in Entry /\ Searched(entries[i])' /\ Settled(entries[i])'
    <3>1. CASE i = t
      <4>1. Settled(x)'
        BY <1>12, <1>14, <1>17, <1>20, NewestKept
      <4>2. Searched(x)'
        BY <1>10, <1>11, <1>17 DEF Searched, NoneBefore, Sym
      <4>3. entries'[i] = x
        BY <1>18, <3>1
      <4> QED
        BY <1>17, <4>1, <4>2, <4>3 DEF Searched, Settled, Innermost
    <3>2. CASE i # t
      <4>1. PICK y : y = entries[i]
        OBVIOUS
      <4>2. y \in Entry /\ Searched(y) /\ Settled(y)
        BY <1>1, <4>1 DEF Cached
      <4>3. y.resolved \/ y.name # s
        BY <1>1, <1>2, <3>2, <4>1, OnlyOne
      <4>4. Searched(y)' /\ Settled(y)'
        BY <1>12, <1>14, <4>2, <4>3, OthersKeep
      <4>5. entries'[i] = y
        BY <1>18, <3>2, <4>1 DEF Live
      <4> QED
        BY <4>2, <4>4, <4>5 DEF Searched, Settled, Innermost
    <3> QED
      BY <3>1, <3>2
  <2> QED
    BY <1>19, <2>1, <2>2, <2>3 DEF Cached
<1>21. Top'
  <2>1. Calling' = Frame(s, a)
    BY <1>12, <1>14, Pushed DEF Lookups
  <2>2. /\ Frame(s, a).sym = s /\ Frame(s, a).addr = a /\ Frame(s, a).back = FALSE
    BY DEF Frame
  <2> QED
    BY <1>2, <1>17, <1>18, <2>1, <2>2 DEF Top
<1> QED
  BY <1>14, <1>15, <1>20, <1>21 DEF Lookups, Idle, Running

\* A table that entries may be added to: the one at hand or the refilled one.
Extends(t) ==
    /\ Placed(t)
    /\ Single(t)
    /\ \A x \in DOMAIN t : t[x] \in Live

\* The new entry takes a slot that no live entry has, unless it is the first.
LEMMA SlotFree ==
    ASSUME NEW t, Extends(t), NEW s
    PROVE  /\ Slot(t) \in Nat
           /\ \A x \in DOMAIN t : t[x] # Slot(t)
           /\ Slot(t) = 0 <=> DOMAIN t = {}
           /\ s \notin DOMAIN t => /\ IsFiniteSet(DOMAIN t \cup {s})
                                   /\ Cardinality(DOMAIN t \cup {s}) = Slot(t) + 1
<1>1. IsFiniteSet(DOMAIN t)
  BY DEF Extends, Placed
<1>2. Slot(t) \in Nat /\ (Slot(t) = 0 <=> DOMAIN t = {})
  BY <1>1, FS_CardinalityType, FS_EmptySet DEF Slot
<1>3. \A x \in DOMAIN t : t[x] \in Nat /\ t[x] < Slot(t)
  BY DEF Extends, Placed, Slot
<1>4. s \notin DOMAIN t => /\ IsFiniteSet(DOMAIN t \cup {s})
                           /\ Cardinality(DOMAIN t \cup {s}) = Slot(t) + 1
  BY <1>1, FS_AddElement DEF Slot
<1> QED
  BY <1>2, <1>3, <1>4

\* Both tables of LookupFirst are such.
LEMMA TableExtends ==
    ASSUME Cached
    PROVE  Extends(table)
<1>1. \A x \in DOMAIN table : table[x] \in Live
  BY DEF Cached, Placed, Live
<1> QED
  BY <1>1 DEF Cached, Extends

\* The growth leaves one entry, and that is one there was before, under the
\* name of the first.
LEMMA RefilledExtends ==
    ASSUME Books, Cached, ~Room
    PROVE  Extends(Refilled)
<1>1. IsFiniteSet(DOMAIN table) /\ Cardinality(DOMAIN table) \in Nat
  BY FS_CardinalityType DEF Cached, Placed
<1>2. Capacity \in Nat /\ Capacity > 0
  BY LookupAssumption DEF Books, Block, Capacity
<1>3. DOMAIN table # {}
  BY <1>1, <1>2, FS_EmptySet DEF Room, Size
<1>4. 0 \in DOMAIN entries /\ 0 \in Live
  BY <1>3 DEF Cached, Placed, Live
<1>5. PICK n : n = IF Capacity = StaticLookup THEN Smudge ELSE entries[0].name
  OBVIOUS
<1>6. DOMAIN Refilled = {n} /\ Refilled[n] = 0
  BY <1>5 DEF Refilled
<1>7. n \in Symbols => entries[0].name = n
  BY <1>5, SymbolsAssumption
<1>8. IsFiniteSet({n}) /\ Cardinality({n}) = 1
  BY FS_Singleton
<1>9. Placed(Refilled)
  BY <1>4, <1>6, <1>7, <1>8 DEF Placed
<1> QED
  BY <1>4, <1>6, <1>9 DEF Extends, Single

\* A symbol that is looked up for the first time is not run by a wrapper.
LEMMA NewIsIdle ==
    ASSUME Recursion = FALSE, Lookups, state = "run",
           NEW s \in Symbols, MayCall(s), s \notin DOMAIN table
    PROVE  ~Runs(s)
BY RunsUnresolved

\* A lookup that could not be cached leaves only what is not used any more.
LEMMA NoAnswerKeeps ==
    ASSUME Lookups, state = "run", NoAnswer, UNCHANGED <<exports, loaded>>
    PROVE  Lookups'
<1>1. stack' = stack /\ state' = "uncached"
  BY DEF NoAnswer
<1> QED
  BY <1>1 DEF Lookups, Idle, Running, PassedNone, NoneBefore, WrapperAdvances, Again

\* The live entries once s has been added to t: the new one and earlier ones.
LEMMA LiveAfter ==
    ASSUME NEW t, Extends(t), NEW s, s \notin DOMAIN t,
           entries' = Written(Slot(t), s), table' = Inserted(t, s)
    PROVE  /\ DOMAIN entries' = DOMAIN entries \cup {Slot(t)}
           /\ entries'[Slot(t)] = [name |-> s, addr |-> Sym(Found(s)),
                                   loadidx |-> Found(s), resolved |-> FALSE]
           /\ \A i \in Live' : i # Slot(t) => i \in Live /\ entries'[i] = entries[i]
           /\ \A x \in DOMAIN t : entries'[t[x]] = entries[t[x]]
           /\ DOMAIN table' = DOMAIN t \cup {s}
           /\ table'[s] = Slot(t) /\ \A x \in DOMAIN t : table'[x] = t[x]
<1> DEFINE new == [name |-> s, addr |-> Sym(Found(s)), loadidx |-> Found(s), resolved |-> FALSE]
<1>1. PICK m : m = Slot(t)
  OBVIOUS
<1>2. PICK e : e = new
  OBVIOUS
<1> HIDE DEF new
<1>3. entries' = [k \in DOMAIN entries \cup {m} |-> IF k = m THEN e ELSE entries[k]]
  BY <1>1, <1>2 DEF Written, new
<1>4. table' = [x \in DOMAIN t \cup {s} |-> IF x = s THEN m ELSE t[x]]
  BY <1>1 DEF Inserted
<1>5. \A x \in DOMAIN t : t[x] # m /\ t[x] \in Live
  BY <1>1, SlotFree DEF Extends
<1>6. ASSUME NEW i \in Live', i # m PROVE i \in Live /\ entries'[i] = entries[i]
  <2>1. i \in DOMAIN entries /\ entries'[i] = entries[i]
    BY <1>3, <1>6 DEF Live
  <2>2. CASE i = 0
    BY <2>1, <2>2 DEF Live
  <2>3. CASE i # 0
    <3>1. PICK x \in DOMAIN table' : table'[x] = i
      BY <1>6, <2>3 DEF Live
    <3>2. x \in DOMAIN t /\ t[x] = i
      BY <1>4, <1>6, <3>1
    <3> QED
      BY <1>5, <2>1, <3>2
  <2> QED
    BY <2>2, <2>3
<1>7. \A x \in DOMAIN t : entries'[t[x]] = entries[t[x]]
  BY <1>3, <1>5 DEF Live
<1>8. DOMAIN entries' = DOMAIN entries \cup {m} /\ entries'[m] = e
  BY <1>3
<1>9. DOMAIN table' = DOMAIN t \cup {s} /\ table'[s] = m /\ \A x \in DOMAIN t : table'[x] = t[x]
  BY <1>4
<1> QED
  BY <1>1, <1>2, <1>6, <1>7, <1>8, <1>9 DEF new

\* A symbol that has been found for the first time and cached.
LEMMA AddedKeeps ==
    ASSUME Recursion = FALSE, Books, Lookups, state = "run",
           NEW s \in Symbols, MayCall(s), s \notin DOMAIN table,
           NEW t, Extends(t), s \notin DOMAIN t,
           entries' = Written(Slot(t), s), table' = Inserted(t, s),
           Invoke(s, Sym(Found(s))), UNCHANGED <<exports, loaded>>
    PROVE  Lookups'
<1>1. Cached /\ loaded \in Nat
  BY DEF Lookups, Running, Books
<1>2. ~Runs(s)
  BY NewIsIdle
<1>3. PICK h : h = Found(s)
  OBVIOUS
<1>4. From(s) = 0
  BY DEF From
<1>5. h \in Nat /\ NoneBefore(s, h)
  <2>1. \A k \in 0..(loaded - 1) : 0 <= k
    BY <1>1
  <2> QED
    BY <1>1, <1>3, <1>4, <2>1, FoundPasses DEF NoneBefore
<1>6. PICK a : a = Sym(h)
  OBVIOUS
<1>7. /\ a \in Nat \cup {Null}
      /\ a # Null => a = h
      /\ a = Null => h >= loaded
  BY <1>1, <1>5, <1>6 DEF Sym, Null
<1>8. IF a = Null THEN NoneBefore(s, loaded) ELSE NoneBefore(s, a)
  BY <1>1, <1>5, <1>7 DEF NoneBefore
<1>9. /\ stack' = Append(stack, Frame(s, a))
      /\ state' = IF a = Null THEN "missing" ELSE "run"
  BY <1>3, <1>6 DEF Invoke, Frame
<1>10. /\ stack' \in Seq(Frames)
       /\ Chains' /\ PassedNone' /\ WrapperAdvances'
       /\ a # Null => \A i \in 1..Len(stack') : stack'[i].addr # Null
  BY <1>2, <1>7, <1>8, <1>9, PushKeeps
<1>11. PICK m : m = Slot(t)
  OBVIOUS
<1>12. PICK e : e = [name |-> s, addr |-> a, loadidx |-> h, resolved |-> FALSE]
  OBVIOUS
<1>13. e \in Entry /\ e.name = s /\ e.addr = a /\ e.loadidx = h /\ ~e.resolved
  BY <1>5, <1>7, <1>12 DEF Entry
<1>14. /\ DOMAIN entries' = DOMAIN entries \cup {m}
       /\ entries'[m] = e
       /\ \A i \in Live' : i # m => i \in Live /\ entries'[i] = entries[i]
       /\ \A x \in DOMAIN t : entries'[t[x]] = entries[t[x]]
       /\ DOMAIN table' = DOMAIN t \cup {s}
       /\ table'[s] = m /\ \A x \in DOMAIN t : table'[x] = t[x]
  BY <1>3, <1>6, <1>11, <1>12, LiveAfter
<1>15. /\ m \in Nat /\ (m = 0 <=> DOMAIN t = {})
       /\ IsFiniteSet(DOMAIN table') /\ Cardinality(DOMAIN table') = m + 1
  BY <1>11, <1>14, SlotFree
<1>16. ASSUME a # Null PROVE Cached'
  <2>1. Placed(table)'
    <3>1. 0 \in DOMAIN entries'
      BY <1>14, <1>15 DEF Extends, Placed
    <3>2. ASSUME NEW x \in DOMAIN table'
          PROVE  /\ table'[x] \in Nat
                 /\ table'[x] \in DOMAIN entries'
                 /\ table'[x] < m + 1
                 /\ IF x \in Symbols THEN entries'[table'[x]].name = x ELSE table'[x] = 0
      <4>1. CASE x = s
        BY <1>13, <1>14, <1>15, <4>1
      <4>2. CASE x \in DOMAIN t /\ x # s
        <5>1. /\ t[x] \in Nat /\ t[x] \in DOMAIN entries /\ t[x] < m
              /\ IF x \in Symbols THEN entries[t[x]].name = x ELSE t[x] = 0
          BY <1>11, <4>2 DEF Extends, Placed, Slot
        <5> QED
          BY <1>14, <1>15, <4>2, <5>1
      <4> QED
        BY <1>14, <4>1, <4>2
    <3> QED
      BY <1>15, <3>1, <3>2 DEF Placed
  <2>2. ASSUME NEW i \in Live', i # m
        PROVE  /\ entries[i] \in Entry /\ Searched(entries[i]) /\ Settled(entries[i])
               /\ ~entries[i].resolved => entries[i].name # s
    <3>1. i \in Live
      BY <1>14, <2>2
    <3> QED
      BY <1>1, <1>2, <3>1, UnresolvedRuns DEF Cached
  <2>3. Single(table)'
    <3>1. SUFFICES ASSUME 0 \in DOMAIN entries', ~entries'[0].resolved,
                          entries'[0].name \in DOMAIN table'
                   PROVE  table'[entries'[0].name] = 0
      BY DEF Single
    <3>2. CASE m = 0
      BY <1>13, <1>14, <3>2
    <3>3. CASE m # 0
      <4>1. 0 \in Live' /\ 0 \in DOMAIN entries /\ entries'[0] = entries[0]
        BY <1>14, <3>1, <3>3 DEF Live
      <4>2. entries[0].name # s /\ entries[0].name \in DOMAIN t
        BY <1>14, <2>2, <3>1, <3>3, <4>1
      <4> QED
        BY <1>14, <3>1, <4>1, <4>2 DEF Extends, Single
    <3> QED
      BY <3>2, <3>3
  <2>4. ASSUME NEW i \in Live'
        PROVE  entries'[i] \in Entry /\ Searched(entries[i])' /\ Settled(entries[i])'
    <3>1. CASE i = m
      <4>1. Settled(e)'
        BY <1>7, <1>9, <1>13, <1>16, NewestKept
      <4>2. Searched(e)'
        BY <1>5, <1>6, <1>13 DEF Searched, NoneBefore, Sym
      <4>3. entries'[i] = e
        BY <1>14, <3>1
      <4> QED
        BY <1>13, <4>1, <4>2, <4>3 DEF Searched, Settled, Innermost
    <3>2. CASE i # m
      <4>1. PICK y : y = entries[i]
        OBVIOUS
      <4>2. y \in Entry /\ Searched(y) /\ Settled(y) /\ (y.resolved \/ y.name # s)
        BY <2>2, <3>2, <4>1
      <4>3. Searched(y)' /\ Settled(y)'
        BY <1>7, <1>9, <4>2, OthersKeep
      <4>4. entries'[i] = y
        BY <1>14, <3>2, <4>1
      <4> QED
        BY <4>2, <4>3, <4>4 DEF Searched, Settled, Innermost
    <3> QED
      BY <3>1, <3>2
  <2> QED
    BY <2>1, <2>3, <2>4 DEF Cached
<1>17. Top'
  <2>1. Calling' = Frame(s, a)
    BY <1>7, <1>9, Pushed DEF Lookups
  <2>2. /\ Frame(s, a).sym = s /\ Frame(s, a).addr = a /\ Frame(s, a).back = FALSE
    BY DEF Frame
  <2> QED
    BY <1>13, <1>14, <2>1, <2>2 DEF Top
<1> QED
  BY <1>9, <1>10, <1>16, <1>17 DEF Lookups, Idle, Running

\* A call, whether its symbol is found in the cache, added to it, or lost.
LEMMA CallLookups ==
    ASSUME Recursion = FALSE, Books, Lookups, NEW s \in Symbols, Call(s)
    PROVE  Lookups'
<1>1. state = "run" /\ MayCall(s) /\ UNCHANGED <<exports, loaded>>
  BY DEF Call
<1>2. CASE LookupAgain(s)
  <2>1. s \in DOMAIN table /\ UNCHANGED table
    BY <1>2 DEF LookupAgain
  <2>2. CASE entries[table[s]].resolved
    <3>1. Invoke(s, entries[table[s]].addr) /\ UNCHANGED entries
      BY <1>2, <2>2 DEF LookupAgain
    <3> QED
      BY <1>1, <2>1, <2>2, <3>1, ResolvedKeeps
  <2>3. CASE ~entries[table[s]].resolved
    <3>1. PICK h : h = Found(s)
      OBVIOUS
    <3>2. /\ Invoke(s, Sym(h))
          /\ entries' = [entries EXCEPT ![table[s]].addr = Sym(h), ![table[s]].loadidx = h]
      BY <1>2, <2>3, <3>1 DEF LookupAgain
    <3> QED
      BY <1>1, <2>1, <2>3, <3>1, <3>2, SearchedOn
  <2> QED
    BY <2>2, <2>3
<1>3. CASE LookupFirst(s)
  <2>1. s \notin DOMAIN table
    BY <1>3 DEF LookupFirst
  <2>2. Cached
    BY <1>1 DEF Lookups, Running
  <2>3. ASSUME NEW t, Extends(t), AddTo(t, s) PROVE Lookups'
    <3>1. CASE NoAnswer
      BY <1>1, <3>1, NoAnswerKeeps
    <3>2. CASE ~NoAnswer
      <4>1. /\ entries' = Written(Slot(t), s) /\ s \notin DOMAIN t
            /\ table' = Inserted(t, s) /\ Invoke(s, Sym(Found(s)))
        BY <2>3, <3>2, Zenon DEF AddTo
      <4> QED
        BY <1>1, <2>1, <2>3, <4>1, AddedKeeps
    <3> QED
      BY <3>1, <3>2
  <2>4. CASE Room /\ AddTo(table, s)
    <3>1. PICK t : t = table
      OBVIOUS
    <3> QED
      BY <2>2, <2>3, <2>4, <3>1, TableExtends
  <2>5. CASE ~Room /\ AddTo(Refilled, s)
    <3>1. PICK t : t = Refilled
      OBVIOUS
    <3> QED
      BY <2>2, <2>3, <2>5, <3>1, RefilledExtends
  <2>6. CASE NoAnswer
    BY <1>1, <2>6, NoAnswerKeeps
  <2> HIDE DEF AddTo, Room, Refilled
  <2> QED
    BY <1>3, <2>4, <2>5, <2>6, Zenon DEF LookupFirst
<1> QED
  BY <1>2, <1>3 DEF Call

-----------------------------------------------------------------------------
(* The return of a mocked function.                                        *)

\* A frame to which a call comes back, or not.
LEMMA FrameBack ==
    ASSUME NEW f \in Frames, NEW b \in BOOLEAN
    PROVE  /\ [f EXCEPT !.back = b] \in Frames
           /\ [f EXCEPT !.back = b].sym = f.sym
           /\ [f EXCEPT !.back = b].addr = f.addr
           /\ [f EXCEPT !.back = b].back = b
BY DEF Frames

\* The stack without its last frame.
LEMMA Popped ==
    ASSUME stack \in Seq(Frames), stack # << >>,
           stack' = [i \in 1..(Len(stack) - 1) |->
                       [stack[i] EXCEPT !.back = @ \/ i = Len(stack) - 1]]
    PROVE  /\ stack' \in Seq(Frames)
           /\ Len(stack) \in Nat \ {0} /\ Len(stack') = Len(stack) - 1
           /\ \A i \in 1..(Len(stack) - 1) : /\ stack'[i].sym = stack[i].sym
                                             /\ stack'[i].addr = stack[i].addr
           /\ stack' # << >> => stack'[Len(stack')].back
<1> DEFINE n == Len(stack)
<1>1. n \in Nat \ {0} /\ \A i \in 1..n : stack[i] \in Frames
  OBVIOUS
<1> HIDE DEF n
<1>2. ASSUME NEW i \in 1..(n - 1)
      PROVE  /\ stack'[i] \in Frames
             /\ stack'[i].sym = stack[i].sym
             /\ stack'[i].addr = stack[i].addr
             /\ i = n - 1 => stack'[i].back
  <2>1. stack'[i] = [stack[i] EXCEPT !.back = @ \/ i = n - 1] /\ stack[i] \in Frames
    BY <1>1, <1>2 DEF n
  <2>2. PICK b \in BOOLEAN : b = (stack[i].back \/ i = n - 1)
    OBVIOUS
  <2>3. stack'[i] = [stack[i] EXCEPT !.back = b]
    BY <2>1, <2>2
  <2>4. PICK f \in Frames : f = stack[i]
    BY <2>1
  <2>5. PICK g : g = [f EXCEPT !.back = b]
    OBVIOUS
  <2>6. g \in Frames /\ g.sym = f.sym /\ g.addr = f.addr /\ g.back = b
    BY <2>5, FrameBack
  <2>7. stack'[i] = g
    BY <2>3, <2>4, <2>5, Zenon
  <2>8. i = n - 1 => g.back
    <3>1. i = n - 1 => b
      BY <2>2
    <3> QED
      BY <2>6, <3>1, Zenon
  <2> QED
    BY <2>4, <2>6, <2>7, <2>8, Zenon
<1>3. stack' = [i \in 1..(n - 1) |-> stack'[i]]
  BY DEF n
<1>4. stack' \in Seq(Frames) /\ Len(stack') = n - 1
  BY <1>1, <1>2, <1>3
<1>5. stack' # << >> => Len(stack') \in 1..(n - 1) /\ Len(stack') = n - 1
  BY <1>1, <1>4
<1> QED
  BY <1>1, <1>2, <1>4, <1>5 DEF n

\* A return: what a wrapper that found itself had called is resolved now.
LEMMA ReturnLookups ==
    ASSUME Books, Lookups, Return
    PROVE  Lookups'
<1> DEFINE n == Len(stack)
<1>1. /\ state = "run" /\ stack # << >> /\ (Again(Calling) => Calling.back)
      /\ UNCHANGED <<exports, loaded, table>>
  BY DEF Return
<1>2. CASE Calling.sym \notin DOMAIN table
  <2>1. UNCHANGED <<entries, stack>> /\ state' = "unresolved"
    BY <1>2 DEF Return
  <2> QED
    BY <1>1, <2>1 DEF Lookups, Idle, Running, PassedNone, NoneBefore, WrapperAdvances, Again
<1>3. CASE Calling.sym \in DOMAIN table
  <2>1. PICK s : s = Calling.sym
    OBVIOUS
  <2>2. PICK t : t = table[s]
    OBVIOUS
  <2>3. PICK e : e = entries[t]
    OBVIOUS
  <2>4. /\ entries' = [entries EXCEPT ![t].resolved = TRUE]
        /\ stack' = [i \in 1..(n - 1) |-> [stack[i] EXCEPT !.back = @ \/ i = n - 1]]
        /\ state' = "run"
    BY <1>1, <1>3, <2>1, <2>2 DEF Return
  <2>5. /\ stack \in Seq(Frames) /\ Cached /\ Chains /\ Top
        /\ PassedNone /\ WrapperAdvances
        /\ \A i \in 1..n : stack[i].addr # Null
    BY <1>1 DEF Lookups, Running
  <2>6. /\ stack' \in Seq(Frames)
        /\ n \in Nat \ {0} /\ Len(stack') = n - 1
        /\ \A i \in 1..(n - 1) : stack'[i].sym = stack[i].sym /\ stack'[i].addr = stack[i].addr
        /\ stack' # << >> => stack'[Len(stack')].back
    BY <1>1, <2>4, <2>5, Popped
  <2>7. Calling = stack[n] /\ Calling \in Frames /\ s \in Symbols
    <3>1. Calling = stack[n] /\ n \in 1..n
      BY <2>6 DEF Calling
    <3>2. Calling \in Frames
      BY <2>5, <3>1
    <3> QED
      BY <2>1, <3>1, <3>2 DEF Frames
  <2> HIDE DEF n
  <2>8. /\ t \in Live /\ e \in Entry /\ e.name = s
        /\ Searched(e) /\ Settled(e)
    BY <1>3, <2>1, <2>2, <2>3, <2>5, <2>7, EntryOf
  <2>9. exports[s][e.addr] # "mock"
    <3>1. CASE e.resolved
      BY <2>8, <3>1 DEF Settled
    <3>2. CASE ~e.resolved
      <4>1. PICK k \in 1..n : /\ stack[k].sym = s /\ stack[k].addr = e.addr
                              /\ \A j \in (k + 1)..n : stack[j].sym # s
        BY <2>8, <3>2 DEF Settled, Innermost, n
      <4>2. k = n
        BY <2>1, <2>6, <2>7, <4>1
      <4>3. e.addr = Calling.addr
        BY <2>7, <4>1, <4>2
      <4>4. ~Again(Calling)
        <5>1. ~(Calling.back /\ Again(Calling))
          BY <1>1, <2>1, <2>3, <2>5, <2>8, <3>2 DEF Top
        <5> QED
          BY <1>1, <5>1
      <4> QED
        BY <2>1, <2>8, <4>3, <4>4 DEF Again, Settled
    <3> QED
      BY <3>1, <3>2
  <2>10. PICK x : x = [e EXCEPT !.resolved = TRUE]
    OBVIOUS
  <2>11. /\ x \in Entry /\ x.name = s /\ x.addr = e.addr /\ x.loadidx = e.loadidx
         /\ x.resolved
    BY <2>8, <2>10 DEF Entry
  <2>12. /\ DOMAIN entries' = DOMAIN entries
         /\ entries'[t] = x
         /\ \A i \in DOMAIN entries : i # t => entries'[i] = entries[i]
    <3>1. t \in DOMAIN entries
      BY <2>8 DEF Live
    <3> QED
      BY <2>3, <2>4, <2>10, <3>1
  <2>13. Live' = Live
    BY <1>1, <2>12 DEF Live
  <2>14. \A i \in Live : entries'[i].name = s => entries'[i].resolved
    <3>1. ASSUME NEW i \in Live, entries[i].name = s, i # t PROVE entries[i].resolved
      BY <1>3, <2>1, <2>2, <2>5, <2>7, <3>1, OnlyOne
    <3> QED
      BY <2>11, <2>12, <3>1 DEF Live
  <2>15. ASSUME NEW i \in Live
         PROVE  entries'[i] \in Entry /\ Searched(entries[i])' /\ Settled(entries[i])'
    <3>1. CASE i = t
      <4>1. entries'[i] = x
        BY <2>12, <3>1
      <4>2. Searched(x)' /\ Settled(x)'
        BY <1>1, <2>8, <2>9, <2>11 DEF Searched, NoneBefore, Sym, Settled
      <4> QED
        BY <2>11, <4>1, <4>2 DEF Searched, Settled, Innermost
    <3>2. CASE i # t
      <4>1. PICK y : y = entries[i]
        OBVIOUS
      <4>2. y \in Entry /\ Searched(y) /\ Settled(y)
        BY <2>5, <4>1 DEF Cached
      <4>3. entries'[i] = y
        BY <2>12, <3>2, <4>1 DEF Live
      <4>4. y.resolved \/ y.name # s
        BY <2>14, <4>3
      <4>5. ASSUME ~y.resolved PROVE Innermost(y)'
        <5>1. PICK k \in 1..n : /\ stack[k].sym = y.name /\ stack[k].addr = y.addr
                                /\ \A j \in (k + 1)..n : stack[j].sym # y.name
          BY <4>2, <4>5 DEF Settled, Innermost, n
        <5>2. k # n
          BY <2>1, <2>7, <4>4, <4>5, <5>1
        <5>3. k \in 1..(n - 1) /\ \A j \in (k + 1)..(n - 1) : j \in (k + 1)..n /\ j \in 1..(n - 1)
          BY <2>6, <5>1, <5>2
        <5>4. /\ stack'[k].sym = y.name /\ stack'[k].addr = y.addr
              /\ \A j \in (k + 1)..(n - 1) : stack'[j].sym # y.name
          BY <2>6, <5>1, <5>3
        <5> QED
          BY <2>6, <5>3, <5>4 DEF Innermost
      <4>6. Searched(y)' /\ Settled(y)'
        BY <1>1, <4>2, <4>5 DEF Searched, NoneBefore, Sym, Settled
      <4> QED
        BY <4>2, <4>3, <4>6 DEF Searched, Settled, Innermost
    <3> QED
      BY <3>1, <3>2
  <2>16. Cached'
    <3>1. ASSUME NEW i \in DOMAIN entries
          PROVE  entries'[i].name = entries[i].name /\ (~entries'[i].resolved => ~entries[i].resolved)
      BY <2>3, <2>8, <2>11, <2>12, <3>1
    <3>2. Placed(table) /\ Single(table)
      BY <2>5 DEF Cached
    <3>3. Placed(table)'
      BY <1>1, <2>12, <3>1, <3>2 DEF Placed
    <3>4. Single(table)'
      BY <1>1, <2>12, <3>1, <3>2 DEF Single
    <3> QED
      BY <2>13, <2>15, <3>3, <3>4 DEF Cached
  <2>17. Chains'
    <3>1. ASSUME NEW i \in 1..(n - 2), Again(stack[i])
          PROVE  stack[i + 1].sym = stack[i].sym /\ i \in 1..(n - 1) /\ i + 1 \in 1..(n - 1)
      BY <2>5, <2>6, <3>1 DEF Chains, n
    <3>2. \A i \in 1..(n - 2) : i \in 1..(n - 1)
      BY <2>6
    <3> QED
      BY <1>1, <2>6, <3>1, <3>2 DEF Chains, Again
  <2>18. Top'
    <3>1. ASSUME stack' # << >>
          PROVE  /\ Calling'.back
                 /\ Again(Calling)' => Calling'.sym = s
      <4>1. Calling' = stack'[n - 1] /\ n - 1 \in 1..(n - 1)
        BY <2>6, <3>1 DEF Calling
      <4>2. ASSUME Again(stack[n - 1]) PROVE stack[n - 1].sym = s
        BY <2>1, <2>5, <2>6, <2>7, <4>1, <4>2 DEF Chains, n
      <4>3. Again(Calling)' => Again(stack[n - 1])
        BY <1>1, <2>6, <4>1 DEF Again
      <4> QED
        BY <2>6, <3>1, <4>1, <4>2, <4>3
    <3> QED
      BY <2>13, <2>14, <3>1 DEF Top
  <2>19. \A i \in 1..(n - 1) : i \in 1..n
    BY <2>6
  <2>20. PassedNone'
    <3>1. ASSUME NEW i \in 1..(n - 1)
          PROVE  (IF stack[i].addr = Null THEN NoneBefore(stack[i].sym, loaded)
                                          ELSE NoneBefore(stack[i].sym, stack[i].addr))'
      <4>1. stack'[i].sym = stack[i].sym /\ stack'[i].addr = stack[i].addr
        BY <2>6, <3>1
      <4>2. IF stack[i].addr = Null THEN NoneBefore(stack[i].sym, loaded)
                                    ELSE NoneBefore(stack[i].sym, stack[i].addr)
        BY <2>5, <2>19, <3>1 DEF PassedNone, n
      <4> QED
        BY <1>1, <4>1, <4>2 DEF NoneBefore
    <3> QED
      BY <2>6, <3>1 DEF PassedNone
  <2>21. WrapperAdvances'
    <3>1. ASSUME NEW i \in 1..(n - 1), NEW j \in 1..(n - 1), i < j,
                 stack'[i].sym = stack'[j].sym, Again(stack[i])', stack'[j].addr # Null
          PROVE  stack'[i].addr < stack'[j].addr
      <4>1. Again(stack[i]) /\ stack[i].sym = stack[j].sym /\ stack[j].addr # Null
        BY <1>1, <2>6, <3>1 DEF Again
      <4>2. stack[i].addr < stack[j].addr
        BY <2>5, <2>19, <3>1, <4>1 DEF WrapperAdvances, n
      <4> QED
        BY <2>6, <3>1, <4>2
    <3> QED
      BY <2>6, <3>1 DEF WrapperAdvances
  <2>22. \A i \in 1..(n - 1) : stack'[i].addr # Null
    BY <2>5, <2>6, <2>19
  <2> QED
    BY <2>4, <2>6, <2>16, <2>17, <2>18, <2>20, <2>21, <2>22 DEF Lookups, Idle, Running
<1> QED
  BY <1>2, <1>3

-----------------------------------------------------------------------------
\* While no wrapper runs there is nothing to say of the wrappers.
LEMMA NoWrapper ==
    ASSUME stack' = << >>, state' # "run", state' = "load" => table' = << >> /\ entries' = << >>
    PROVE  Lookups'
<1>1. stack' \in Seq(Frames) /\ Len(stack') = 0 /\ 1..0 = {}
  OBVIOUS
<1> QED
  BY <1>1 DEF Lookups, Idle, Running, PassedNone, WrapperAdvances

\* Every step keeps the cache and the wrappers in agreement.
LEMMA LookupsKept ==
    ASSUME Recursion = FALSE
    PROVE  Books /\ Lookups /\ [Next]_vars => Lookups'
<1> SUFFICES ASSUME Books, Lookups, [Next]_vars PROVE Lookups'
  OBVIOUS
<1>1. CASE MapNeeded
  <2>1. /\ state = "load" /\ state' \in {"load", "freed"}
        /\ UNCHANGED <<entries, table, stack>>
    BY <1>1 DEF MapNeeded, cache
  <2> QED
    BY <2>1, NoWrapper DEF Lookups, Idle
<1>2. CASE MapDone
  <2>1. /\ state' = "run" /\ UNCHANGED <<exports, loaded>>
        /\ table' = << >> /\ entries' = << >> /\ stack' = << >>
    BY <1>2 DEF MapDone, cache, Lookups, Idle
  <2>2. stack' \in Seq(Frames) /\ Len(stack') = 0 /\ 1..0 = {} /\ 1..(0 - 1) = {}
    BY <2>1
  <2>3. DOMAIN table' = {} /\ DOMAIN entries' = {}
    BY <2>1
  <2>4. Cached'
    BY <2>3, FS_EmptySet DEF Cached, Placed, Single, Live
  <2> QED
    BY <2>1, <2>2, <2>4 DEF Lookups, Idle, Running, Chains, Top, PassedNone, WrapperAdvances
<1>3. CASE \E s \in Symbols : Call(s)
  BY <1>3, CallLookups
<1>4. CASE Return
  BY <1>4, ReturnLookups
<1>5. CASE DlFree
  <2>1. state' = "ended" /\ stack' = << >>
    BY <1>5 DEF DlFree, Lookups, Idle
  <2> QED
    BY <2>1, NoWrapper
<1>6. CASE UNCHANGED vars
  BY <1>6 DEF vars, Lookups, Idle, Running, Cached, Placed, Single, Live, Searched, NoneBefore,
              Sym, Settled, Innermost, Chains, Top, Calling, Again, PassedNone, WrapperAdvances
<1> QED
  BY <1>1, <1>2, <1>3, <1>4, <1>5, <1>6 DEF Next, Finished

\* The cache and the wrappers agree as long as no mocked function calls
\* itself: then an unresolved entry is always that of the wrapper that looks on.
THEOREM LookupsHold ==
    ASSUME Recursion = FALSE
    PROVE  Spec => [](Books /\ Lookups)
<1>1. Init => Books /\ Lookups
  <2> SUFFICES ASSUME Init PROVE Lookups
    BY BooksInitially
  <2>1. /\ stack = << >> /\ table = << >> /\ entries = << >> /\ state = "load"
    BY DEF Init
  <2>2. stack \in Seq(Frames) /\ Len(stack) = 0 /\ 1..0 = {}
    BY <2>1
  <2> QED
    BY <2>1, <2>2 DEF Lookups, Idle, Running, PassedNone, WrapperAdvances
<1>2. Books /\ Lookups /\ [Next]_vars => (Books /\ Lookups)'
  BY BooksKept, LookupsKept
<1> QED
  BY <1>1, <1>2, PTL DEF Spec

\* A wrapper that finds itself is led to a later library each time.
THEOREM WrappersAdvance ==
    ASSUME Recursion = FALSE
    PROVE  Spec => []WrapperAdvances
<1>1. Lookups => WrapperAdvances
  BY DEF Lookups
<1> QED
  BY <1>1, LookupsHold, PTL

\* A wrapper ends up in the first library that really defines its symbol, and
\* gives up only if there is none.
THEOREM FindsFirst ==
    ASSUME Recursion = FALSE
    PROVE  Spec => []FirstDefiner
<1>1. Books /\ Lookups => FirstDefiner
  <2> SUFFICES ASSUME Books, Lookups, NEW i \in 1..Len(stack)
               PROVE  LET f       == stack[i]
                          definer == {h \in 0..(loaded - 1) : exports[f.sym][h] = "real"}
                      IN  /\ f.addr = Null => definer = {}
                          /\ f.addr \in definer => f.addr = Min(definer)
    BY DEF FirstDefiner
  <2> DEFINE f       == stack[i]
             definer == {h \in 0..(loaded - 1) : exports[f.sym][h] = "real"}
  <2>1. loaded \in Nat /\ f \in Frames
    BY DEF Books, Lookups
  <2>2. IF f.addr = Null THEN NoneBefore(f.sym, loaded) ELSE NoneBefore(f.sym, f.addr)
    BY DEF Lookups, PassedNone
  <2>3. ASSUME f.addr = Null PROVE definer = {}
    BY <2>1, <2>2, <2>3 DEF NoneBefore
  <2>4. ASSUME f.addr \in definer PROVE f.addr = Min(definer)
    <3>1. definer \subseteq Nat
      OBVIOUS
    <3>2. Min(definer) \in definer /\ Min(definer) <= f.addr
      BY <2>4, <3>1, MinIsLeast
    <3>3. PICK m : m = Min(definer)
      OBVIOUS
    <3>4. m \in Nat /\ m <= f.addr /\ f.addr \in Nat /\ m \in 0..(loaded - 1)
          /\ exports[f.sym][m] = "real" /\ f.addr # Null
      BY <2>1, <2>4, <3>1, <3>2, <3>3 DEF Null
    <3>5. ~(m < f.addr)
      BY <2>2, <3>4 DEF NoneBefore
    <3> QED
      BY <3>3, <3>4, <3>5
  <2> QED
    BY <2>3, <2>4
<1> QED
  BY <1>1, LookupsHold, PTL
=============================================================================
