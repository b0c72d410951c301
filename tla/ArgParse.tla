------------------------------ MODULE ArgParse ------------------------------
(***************************************************************************)
(* The command line: cldm_argp.c and the automaton of cldm_dfa.c that      *)
(* recognises the long options.                                            *)
(*                                                                         *)
(* A string is a sequence of chunks, runs of characters that the options   *)
(* never tell apart: "--verbose" and "--version" are <<"--", "ver",        *)
(* "bose">> and <<"--", "ver", "sion">>.  A short option is a chunk too.   *)
(* An argument is chosen when the parser comes to it.                      *)
(***************************************************************************)
EXTENDS MainThread, Sequences, FiniteSets, SequencesExt

CONSTANTS
    ArgPool,     \* the arguments a user may give, a set of chunk sequences
    Number,      \* what strtoul makes of the strings that are numbers
    MaxParams,   \* CLDM_ARGP_MAX_PARAMS
    MaxThreads,  \* CLDM_MAX_THREADS
    StateDelta,  \* CLDM_DFA_STATE_DELTA
    EdgeDelta    \* CLDM_DFA_EDGE_DELTA

ASSUME ArgAssumption ==
    /\ MaxParams \in Nat \ {0}
    /\ MaxThreads \in Nat \ {0}
    /\ StateDelta \in Nat \ {0, 1}
    /\ EdgeDelta \in Nat \ {0, 1}
    /\ \A s \in DOMAIN Number : Number[s] \in Nat

VARIABLES
    argc,      \* the number of strings in argv, the program's name included
    argv,      \* argv[1], argv[2], ... as far as they have been read
    dfa,       \* the automaton
    added,     \* how many options it knows
    ctx,       \* cldm_argp_ctx and the cldm_args it fills
    posflags,  \* the arguments found to be positional
    posparams  \* the positional arguments at the end of argv, by number

argVars == <<argc, argv, dfa, added, ctx, posflags, posparams>>

\* cldm_argp_params.  An option without an argument sets a member of
\* cldm_args, or is one of two with an effect of their own.
Params == <<
    [short |-> "v",     long |-> <<"--", "ver", "bose">>,      arg |-> FALSE, handle |-> "verbose"],
    [short |-> "V",     long |-> <<"--", "ver", "sion">>,      arg |-> FALSE, handle |-> "version"],
    [short |-> "h",     long |-> <<"--", "help">>,             arg |-> FALSE, handle |-> "help"],
    [short |-> "usage", long |-> <<"--", "usage">>,            arg |-> FALSE, handle |-> "help"],
    [short |-> "x",     long |-> <<"--", "fail-fast">>,        arg |-> FALSE, handle |-> "fail_fast"],
    [short |-> "c",     long |-> <<"--", "capture">>,          arg |-> TRUE,  handle |-> "capture"],
    [short |-> "s",     long |-> <<"--", "capture", "-none">>, arg |-> FALSE, handle |-> "capture_none"],
    [short |-> "d",     long |-> <<"--", "redirect-captures">>, arg |-> TRUE, handle |-> "redirect"],
    [short |-> "j",     long |-> <<"--", "jobs">>,             arg |-> TRUE,  handle |-> "jobs"],
    [short |-> "ddash", long |-> <<"--">>,                     arg |-> FALSE, handle |-> "posidx"] >>

\* The letters a user can type: the other two stand for values above UCHAR_MAX.
Letters == {Params[i].short : i \in DOMAIN Params} \ {"usage", "ddash"}

ParamOf(short) == Params[SelectInSeq(Params, LAMBDA p : p.short = short)]

\* cldm_argp_valid_captures, and the streams each of them stands for.
ValidCaptures == [none |-> {}, stdout |-> {"out"}, stderr |-> {"err"}, all |-> Streams]

\* cldm_args and cldm_argp_ctx as cldm_argp_parse sets them up.  redirect is
\* the number of the argument that holds the name, 0 for none.
NewCtx ==
    [args |-> [redirect |-> 0, jobs |-> 1, capture |-> Streams, fail_fast |-> FALSE,
               help |-> FALSE, version |-> FALSE, verbose |-> FALSE],
     pending |-> "none", posonly |-> FALSE, refused |-> FALSE]

-----------------------------------------------------------------------------
(* The automaton: the short option each state accepts ("" for none), state *)
(* 1 being the start, the edges, and the sizes of the two arrays.          *)

NoDfa    == [shortop |-> << >>, edge |-> << >>, nstates |-> 0, nedges |-> 0]
EmptyDfa == [shortop |-> <<"">>, edge |-> << >>,
             nstates |-> StateDelta, nedges |-> EdgeDelta]

\* cldm_dfa_ensure_*_capacity: the size the array needs for one more.
Ensured(used, size, delta) == IF used + 1 < size THEN size ELSE size + delta

\* cldm_dfa_append: a new state behind a new edge.
Append1(d, state, ch) ==
    LET new == Len(d.shortop) + 1
    IN  [shortop |-> Append(d.shortop, ""),
         edge    |-> [e \in DOMAIN d.edge \cup {<<state, ch>>} |->
                        IF e = <<state, ch>> THEN new ELSE d.edge[e]],
         nstates |-> Ensured(Len(d.shortop), d.nstates, StateDelta),
         nedges  |-> Ensured(Cardinality(DOMAIN d.edge), d.nedges, EdgeDelta)]

\* One step along the option's name, on an edge that is there or a new one.
Extend(w, ch) ==
    LET d == IF <<w.state, ch>> \in DOMAIN w.dfa.edge THEN w.dfa
             ELSE Append1(w.dfa, w.state, ch)
    IN  [dfa |-> d, state |-> d.edge[<<w.state, ch>>]]

\* Slip: the option is accepted at its first chunk that is its own.
Added_early(d, p) ==
    LET w == FoldLeft(Extend, [dfa |-> d, state |-> 1], p.long)
    IN  [w.dfa EXCEPT !.shortop[Len(d.shortop)] = p.short]

\* cldm_dfa_add_argument.
Added(d, p) ==
    LET w == FoldLeft(Extend, [dfa |-> d, state |-> 1], p.long)
    IN  [w.dfa EXCEPT !.shortop[w.state] = p.short]

\* cldm_dfa_simulate: the short option and the chunks read, or "".
Simulate(d, s) ==
    LET Step(w, ch) == IF w.stuck \/ <<w.state, ch>> \notin DOMAIN d.edge
                         THEN [w EXCEPT !.stuck = TRUE]
                         ELSE [w EXCEPT !.state = d.edge[<<w.state, ch>>], !.len = @ + 1]
        w == FoldLeft(Step, [state |-> 1, len |-> 0, stuck |-> FALSE], s)
    IN  [shortop |-> d.shortop[w.state], len |-> w.len]

-----------------------------------------------------------------------------
(* The handlers.                                                           *)

Refuse(c) == [c EXCEPT !.refused = TRUE]

\* cldm_argp_set_jobs for a string that is not empty.
SetJobs(c, s) ==
    IF s \notin DOMAIN Number \/ Number[s] = 0 THEN Refuse(c)
    ELSE [c EXCEPT !.args.jobs = IF Number[s] > MaxThreads THEN MaxThreads ELSE Number[s]]

\* cldm_argp_set_capture, cldm_argp_set_redirect and cldm_argp_set_jobs, for
\* the value s out of argument i.  Without a value they wait for the next one.
Assign(h, c, s, i) ==
    CASE s = << >> -> [c EXCEPT !.pending = h]
      [] s # << >> /\ h = "capture" ->
            IF Len(s) = 1 /\ s[1] \in DOMAIN ValidCaptures
              THEN [c EXCEPT !.args.capture = ValidCaptures[s[1]]] ELSE Refuse(c)
      [] s # << >> /\ h = "redirect" -> [c EXCEPT !.args.redirect = i]
      [] s # << >> /\ h = "jobs"     -> SetJobs(c, s)

\* param->handle(ctx, optarg).
Handle(p, c, s, i) ==
    CASE p.arg                     -> Assign(p.handle, c, s, i)
      [] p.handle = "capture_none" -> [c EXCEPT !.args.capture = {}]
      [] p.handle = "posidx"       -> [c EXCEPT !.posonly = TRUE]
      [] OTHER                     -> [c EXCEPT !.args[p.handle] = TRUE]

\* cldm_argp_parse_short_switch.  A letter that is no option is passed over:
\* the loop over the table ends with its variable behind the table, not null.
ShortSwitch(c, s, i) ==
    LET Step(w, k) ==
            IF w.done \/ w.ctx.refused \/ s[k] \notin Letters THEN w
            ELSE [ctx  |-> Handle(ParamOf(s[k]), w.ctx, SubSeq(s, k + 1, Len(s)), i),
                  done |-> ParamOf(s[k]).arg]
    IN  FoldLeft(Step, [ctx |-> c, done |-> FALSE],
                 [k \in 1..Len(s) - 1 |-> k + 1]).ctx

\* cldm_argp_parse_long_switch.
LongSwitch(c, s, i) ==
    LET r == Simulate(dfa, s)
        p == ParamOf(r.shortop)
        v == SubSeq(s, r.len + 2, Len(s))
    IN  CASE r.shortop = "" -> Refuse(c)
          [] r.shortop # "" /\ ~p.arg -> Handle(p, c, SubSeq(s, r.len + 1, Len(s)), i)
          [] OTHER -> IF r.len < Len(s) /\ s[r.len + 1] = "=" /\ v # << >>
                        THEN Handle(p, c, v, i) ELSE Refuse(c)

\* cldm_argp_paramtype.
ParamType(s) == CASE s # << >> /\ s[1] = "-"  -> "short"
                  [] s # << >> /\ s[1] = "--" -> "long"
                  [] OTHER                    -> "positional"

\* Slip: the value of an option counts as positional, too.
IsPositional_value(c, s) == c.pending # "none" \/ c.posonly \/ ParamType(s) = "positional"

\* The arguments that set a bit in posflags.
IsPositional(c, s) ==
    c.pending = "none" /\ (c.posonly \/ ParamType(s) = "positional")

\* The loop body of cldm_argp_parse.  A pending value is taken whatever it
\* looks like, and an empty one leaves the option as it was.
Parsed(c, s, i) ==
    CASE c.pending # "none"   -> [Assign(c.pending, c, s, i) EXCEPT !.pending = "none"]
      [] c.pending = "none" /\ IsPositional(c, s) -> c
      [] OTHER -> IF ParamType(s) = "short" THEN ShortSwitch(c, s, i)
                                            ELSE LongSwitch(c, s, i)

-----------------------------------------------------------------------------
ArgInit ==
    /\ argc \in 1..MaxParams + 1
    /\ argv = << >>
    /\ dfa = NoDfa
    /\ added = 0
    /\ ctx = NewCtx
    /\ posflags = {}
    /\ posparams = << >>

\* Too many arguments, or no memory for the automaton: no usage is printed.
ParseBegin ==
    /\ at = "argp"
    /\ \/ argc > MaxParams /\ Goto("refused") /\ Succeeds /\ UNCHANGED dfa
       \/ argc <= MaxParams /\ Goto("refused") /\ Fails /\ UNCHANGED dfa
       \/ argc <= MaxParams /\ Goto("options") /\ Succeeds /\ dfa' = EmptyDfa
    /\ UNCHANGED <<argc, argv, added, ctx, posflags, posparams>>

\* The next option is added to the automaton; growing it may fail.
AddOption ==
    /\ at = "options"
    /\ added < Len(Params)
    /\ LET d == Added(dfa, Params[added + 1])
       IN  \/ /\ dfa' = d
              /\ added' = added + 1
              /\ Succeeds
              /\ UNCHANGED at
           \/ /\ d.nstates # dfa.nstates \/ d.nedges # dfa.nedges
              /\ dfa' = NoDfa
              /\ Goto("refused")
              /\ Fails
              /\ UNCHANGED added
    /\ UNCHANGED <<argc, argv, ctx, posflags, posparams>>

\* The next argument is read; a refused one ends the parsing.
ReadArgument ==
    /\ at = "options"
    /\ added = Len(Params)
    /\ Len(argv) + 1 < argc
    /\ \E s \in ArgPool :
          /\ argv' = Append(argv, s)
          /\ ctx' = Parsed(ctx, s, Len(argv) + 1)
          /\ posflags' = IF IsPositional(ctx, s) THEN posflags \cup {Len(argv) + 1}
                                                 ELSE posflags
    /\ IF ctx'.refused THEN Goto("refused") /\ dfa' = NoDfa ELSE UNCHANGED <<at, dfa>>
    /\ Succeeds
    /\ UNCHANGED <<argc, added, posparams>>

\* The numbers in S, in their order.
InOrder(S) == [k \in 1..Cardinality(S) |->
                  CHOOSE i \in S : Cardinality({j \in S : j < i}) = k - 1]

\* cldm_argp_partition: the switches to the front of argv, the positional
\* arguments behind them, each in the order they were given.
Partition == InOrder((1..Len(argv)) \ posflags) \o InOrder(posflags)

\* lidx + 1, where args->posparams points to.
FirstPositional == argc - Cardinality(posflags)

ParseEnd ==
    /\ at = "options"
    /\ added = Len(Params)
    /\ Len(argv) + 1 = argc
    /\ \/ /\ ctx.pending # "none"
          /\ Goto("refused")
          /\ Succeeds
          /\ UNCHANGED posparams
       \/ /\ ctx.pending = "none"
          /\ Goto("refused")
          /\ Fails
          /\ UNCHANGED posparams
       \/ /\ ctx.pending = "none"
          /\ Goto("parsed")
          /\ Succeeds
          /\ posparams' = SubSeq(Partition, FirstPositional, argc - 1)
    /\ dfa' = NoDfa
    /\ UNCHANGED <<argc, argv, added, ctx, posflags>>

ArgNext == ParseBegin \/ AddOption \/ ReadArgument \/ ParseEnd

-----------------------------------------------------------------------------
(* Correctness.                                                            *)

\* The automaton, built out of shared prefixes, reads as much of a string as
\* is the beginning of some option, and accepts if that is a whole option.
DfaExact ==
    at = "options" /\ added = Len(Params) =>
        \A s \in {x \in ArgPool : ParamType(x) = "long"} :
            LET Known(n) == \E i \in DOMAIN Params : IsPrefix(SubSeq(s, 1, n), Params[i].long)
                len      == CHOOSE n \in 0..Len(s) :
                               Known(n) /\ \A k \in n + 1..Len(s) : ~Known(k)
                option   == SelectInSeq(Params, LAMBDA p : p.long = SubSeq(s, 1, len))
            IN  Simulate(dfa, s) =
                    [shortop |-> IF option = 0 THEN "" ELSE Params[option].short,
                     len     |-> len]

\* Which arguments are values, switches and positional ones, without parsing
\* anything twice: a value follows a group of short options that ends in the
\* first of them with an argument, and from "--" on everything else is
\* positional.
Opens(s) ==
    /\ ParamType(s) = "short" /\ Len(s) > 1
    /\ s[Len(s)] \in Letters /\ ParamOf(s[Len(s)]).arg
    /\ \A k \in 2..Len(s) - 1 : s[k] \in Letters => ~ParamOf(s[k]).arg

Ends(s) ==
    /\ ParamType(s) = "long"
    /\ \A i \in DOMAIN Params : Len(s) > 1 => ~IsPrefix(SubSeq(s, 1, 2), Params[i].long)

Kinds ==
    LET K[i \in 1..Len(argv)] ==
            CASE \E j \in 1..i - 1 : Ends(argv[j]) /\ K[j] = "switch"  -> "positional"
              [] i > 1 /\ K[i - 1] = "switch" /\ Opens(argv[i - 1])    -> "value"
              [] ParamType(argv[i]) = "positional"                     -> "positional"
              [] OTHER                                                 -> "switch"
    IN  K

\* Whatever the order of switches, values and identifiers, the parameters
\* handed on after the partition are exactly the identifiers, in order.
PositionalsExact ==
    at = "parsed" =>
        posparams = SelectSeq([i \in 1..Len(argv) |-> i], LAMBDA i : Kinds[i] = "positional")
=============================================================================
