---------------------------- MODULE SymbolCache -----------------------------
(***************************************************************************)
(* cldm_dl.c and the way the mocks of cldm_mock.h use it: how the wrapper  *)
(* of a mocked function finds the function it stands in for.               *)
(*                                                                         *)
(* The wrapper asks cldm_dlsym_next for the symbol, calls what it got and  *)
(* then reports success with cldm_dlresolve.  A library that itself links  *)
(* libcldm may hand out the wrapper again.  The wrapper then runs a second *)
(* time, inside the first, and this is how cldm_dlsym_next knows that it   *)
(* has to look further: the entry is there but not resolved.               *)
(*                                                                         *)
(* Every thread has a cache of its own and only reads the library handles, *)
(* so one thread is enough.  The hash table over the entries never sees a  *)
(* removal and is a set of names here, as HashTable shows it to be.        *)
(***************************************************************************)
EXTENDS Integers, Sequences, FiniteSetsExt

CONSTANTS
    Symbols,
    NNeeded,         \* shared libraries in DT_NEEDED, without libcldm
    MaxSodeps,       \* CLDM_MAX_SODEPS
    StaticLookup,    \* CLDM_STATIC_LOOKUP_SIZE
    Smudge,          \* the name that entry 0 has once a pointer overwrote it
    TooLong,         \* the symbols whose name does not fit into an entry
    Recursion,       \* may a mocked function call itself
    MaxDepth,        \* bound: wrappers running inside each other
    Faults           \* the library calls that may fail

FaultKinds == {"dlopen", "malloc", "realloc", "insert"}

ASSUME LibrariesAssumption == NNeeded \in Nat /\ MaxSodeps \in Nat
ASSUME LookupAssumption    == StaticLookup \in Nat \ {0} /\ MaxDepth \in Nat
ASSUME SymbolsAssumption   == IsFiniteSet(Symbols) /\ Smudge \notin Symbols
ASSUME TooLongAssumption   == TooLong \subseteq Symbols
ASSUME RecursionAssumption == Recursion \in BOOLEAN
ASSUME DlFaultAssumption   == Faults \subseteq FaultKinds

\* The handles the program may come to hold, in the order of loading.
Handles == 0..(Min({NNeeded, MaxSodeps}) - 1)

VARIABLES
    exports,   \* what dlsym yields: symbol and handle -> "none", "mock", "real"
    loaded,    \* ndlhandles
    needed,    \* the libraries of DT_NEEDED that have been gone through
    closings,  \* how often dlclose was called for every handle
    entries,   \* un_entries: index -> name, addr, loadidx, resolved
    table,     \* ht: name -> index of its entry
    capacity,  \* 0 until the first lookup
    heap,      \* is un_entries.dyn a live block
    stack,     \* the wrappers that are calling, outermost first
    state      \* "load", "run", "freed", "ended", or what went wrong

vars == <<exports, loaded, needed, closings, entries, table, capacity, heap,
          stack, state>>

cache == <<entries, table, capacity, heap>>

Init ==
    /\ exports \in [Symbols -> [Handles -> {"none", "mock", "real"}]]
    /\ loaded = 0
    /\ needed = 0
    /\ closings = [h \in Handles |-> 0]
    /\ entries = << >>
    /\ table = << >>
    /\ capacity = 0
    /\ heap = FALSE
    /\ stack = << >>
    /\ state = "load"

-----------------------------------------------------------------------------
(* Libraries.                                                              *)

\* Slip: one handle too many is closed.
CloseAll_le == closings' = [h \in Handles |-> IF h <= loaded THEN closings[h] + 1
                                                              ELSE closings[h]]

\* The first loop of cldm_dlfree.
CloseAll == closings' = [h \in Handles |-> IF h < loaded THEN closings[h] + 1
                                                           ELSE closings[h]]

\* One round of the loop of cldm_dlmap_needed.  Libraries beyond the limit
\* are ignored; if one cannot be opened those before it are closed again.
MapNeeded ==
    /\ state = "load" /\ needed < NNeeded
    /\ needed' = needed + 1
    /\ \/ /\ loaded < MaxSodeps
          /\ loaded' = loaded + 1
          /\ UNCHANGED <<closings, state>>
       \/ /\ loaded < MaxSodeps /\ "dlopen" \in Faults
          /\ CloseAll
          /\ state' = "freed"
          /\ UNCHANGED loaded
       \/ /\ loaded >= MaxSodeps
          /\ UNCHANGED <<loaded, closings, state>>
    /\ UNCHANGED <<exports, cache, stack>>

MapDone ==
    /\ state = "load" /\ needed = NNeeded
    /\ state' = "run"
    /\ UNCHANGED <<exports, loaded, needed, closings, cache, stack>>

\* cldm_dllookup_free.
Released == heap /\ capacity <= StaticLookup

\* The call of cldm_dlfree at the end of main.
DlFree ==
    /\ (state = "run" /\ stack = << >>) \/ state = "freed"
    /\ CloseAll
    /\ heap' = Released
    /\ state' = "ended"
    /\ UNCHANGED <<exports, loaded, needed, entries, table, capacity, stack>>

-----------------------------------------------------------------------------
(* The cache.                                                              *)

Null == -1

\* cldm_ht_size.
Size == Cardinality(DOMAIN table)

\* Slip: the search starts again at the library that did not do.
From_same(s) == IF s \in DOMAIN table THEN entries[table[s]].loadidx ELSE 0

\* Slip: the search skips a library.
From_skip(s) == IF s \in DOMAIN table THEN entries[table[s]].loadidx + 2 ELSE 0

\* Where the search for s starts.
From(s) == IF s \in DOMAIN table THEN entries[table[s]].loadidx + 1 ELSE 0

\* The handle at which it ends, and what it yields.
Found(s) ==
    Min({h \in 0..(loaded - 1) : h >= From(s) /\ exports[s][h] # "none"}
          \cup {Max({From(s), loaded})})

Sym(h) == IF h < loaded THEN h ELSE Null

\* The capacity as cldm_dllookup_init sets it on first use.
Capacity == IF capacity = 0 THEN StaticLookup ELSE capacity

Room == Size < Capacity

\* What cldm_dllookup_ensure_capacity leaves in the table: all rounds of its
\* loop insert the same name, that of the first entry, and only the first of
\* them succeeds.  When the static array is left, the pointer to the new block
\* has just been written over that name.
Refilled ==
    [x \in {IF Capacity = StaticLookup THEN Smudge ELSE entries[0].name} |-> 0]

\* The call that may fail when the cache grows.
GrowthFault == IF Capacity = StaticLookup THEN "malloc" ELSE "realloc"

\* The wrapper calls what it was given, or ends the program with status 2.
Invoke(s, a) ==
    /\ stack' = Append(stack, [sym |-> s, addr |-> a, back |-> FALSE])
    /\ state' = IF a = Null THEN "missing" ELSE state

\* cldm_dlsym_next could not cache the symbol: again the wrapper gives up.
NoAnswer == state' = "uncached" /\ UNCHANGED stack

\* cldm_dlsym_next for a symbol in the cache: a resolved entry is the answer,
\* any other makes the search go on.
LookupAgain(s) ==
    /\ s \in DOMAIN table
    /\ LET i == table[s]
           h == Found(s)
       IN  IF entries[i].resolved
             THEN Invoke(s, entries[i].addr) /\ UNCHANGED entries
             ELSE /\ Invoke(s, Sym(h))
                  /\ entries' = [entries EXCEPT ![i].addr = Sym(h), ![i].loadidx = h]
    /\ UNCHANGED <<table, capacity, heap>>

\* The entry a new symbol gets.
Slot(t) == Cardinality(DOMAIN t)

\* cldm_ht_insert of the new entry.
Inserted(t, s) == [x \in DOMAIN t \cup {s} |-> IF x = s THEN Slot(t) ELSE t[x]]

\* The entries with a new one for s in slot i.
Written(i, s) ==
    [k \in DOMAIN entries \cup {i} |->
       IF k = i THEN [name |-> s, addr |-> Sym(Found(s)), loadidx |-> Found(s),
                      resolved |-> FALSE]
                ELSE entries[k]]

\* cldm_dlsym_next for a symbol that is not in the cache, where t is the table
\* once there is room.  The entry is written before it is inserted, which
\* fails if the refilling has brought the name back.
AddTo(t, s) ==
    \/ /\ s \in TooLong
       /\ table' = t
       /\ NoAnswer
       /\ UNCHANGED entries
    \/ /\ s \notin TooLong
       /\ entries' = Written(Slot(t), s)
       /\ \/ /\ s \notin DOMAIN t
             /\ table' = Inserted(t, s)
             /\ Invoke(s, Sym(Found(s)))
          \/ /\ s \in DOMAIN t \/ "insert" \in Faults
             /\ table' = t
             /\ NoAnswer

LookupFirst(s) ==
    /\ s \notin DOMAIN table
    /\ \/ /\ Room
          /\ AddTo(table, s)
          /\ capacity' = Capacity
          /\ UNCHANGED heap
       \/ /\ ~Room
          /\ AddTo(Refilled, s)
          /\ capacity' = 2 * Capacity
          /\ heap' = TRUE
       \/ /\ ~Room /\ GrowthFault \in Faults
          /\ NoAnswer
          /\ UNCHANGED cache

-----------------------------------------------------------------------------
(* The wrappers.                                                           *)

Calling == stack[Len(stack)]

\* Does the frame run the wrapper again instead of the real function?
Again(f) == f.addr # Null /\ exports[f.sym][f.addr] = "mock"

\* The test calls a mocked function, the wrapper that was found calls itself,
\* or a real function calls a mocked one.
MayCall(s) ==
    \/ stack = << >>
    \/ stack # << >> /\ Again(Calling) /\ ~Calling.back /\ s = Calling.sym
    \/ /\ stack # << >> /\ ~Again(Calling)
       /\ Recursion \/ \A i \in 1..Len(stack) : stack[i].sym # s

\* The last part of a wrapper, with mocks disabled.
Call(s) ==
    /\ state = "run" /\ Len(stack) < MaxDepth
    /\ MayCall(s)
    /\ LookupAgain(s) \/ LookupFirst(s)
    /\ UNCHANGED <<exports, loaded, needed, closings>>

\* The called function returns and cldm_dlresolve marks the entry, ending the
\* program with status 2 if there is none.
Return ==
    /\ state = "run" /\ stack # << >>
    /\ Again(Calling) => Calling.back
    /\ \/ /\ Calling.sym \in DOMAIN table
          /\ entries' = [entries EXCEPT ![table[Calling.sym]].resolved = TRUE]
          /\ stack' = [i \in 1..(Len(stack) - 1) |->
                         [stack[i] EXCEPT !.back = @ \/ i = Len(stack) - 1]]
          /\ UNCHANGED state
       \/ /\ Calling.sym \notin DOMAIN table
          /\ state' = "unresolved"
          /\ UNCHANGED <<entries, stack>>
    /\ UNCHANGED <<exports, loaded, needed, closings, table, capacity, heap>>

Finished == state \in {"ended", "missing", "uncached", "unresolved"} /\ UNCHANGED vars

Next == MapNeeded \/ MapDone \/ (\E s \in Symbols : Call(s)) \/ Return
          \/ DlFree \/ Finished

Spec == Init /\ [][Next]_vars

-----------------------------------------------------------------------------
(* Correctness.                                                            *)

\* A wrapper ends up in the first loaded library that really defines its
\* symbol, and gives up only if there is none.
FirstDefiner ==
    \A i \in 1..Len(stack) :
        LET f       == stack[i]
            definer == {h \in 0..(loaded - 1) : exports[f.sym][h] = "real"}
        IN  /\ f.addr = Null => definer = {}
            /\ f.addr \in definer => f.addr = Min(definer)

\* A wrapper that finds itself is led to a later library each time, so that
\* it cannot call itself for ever.
WrapperAdvances ==
    \A i, j \in 1..Len(stack) :
        i < j /\ stack[i].sym = stack[j].sym /\ Again(stack[i]) /\ stack[j].addr # Null
          => stack[i].addr < stack[j].addr

\* cldm_dlresolve always finds the symbol that was looked up before.
ResolveFinds == state # "unresolved"

\* At the end no block is left, and the libraries that have been closed are
\* those that had been opened.
AllReleased ==
    state = "ended" => /\ ~heap
                       /\ \A h \in Handles : closings[h] > 0 <=> h < loaded
=============================================================================
