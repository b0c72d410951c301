---------------------------- MODULE MCSelection ----------------------------
(***************************************************************************)
(* Constants for Selection: a file with two tests and one with a single    *)
(* test, and arguments of every kind the parser tells apart.               *)
(***************************************************************************)
EXTENDS Selection

MCRecord(b, n) == [base |-> b, name |-> n]
MCSym(n, x, v) == [name |-> n, shndx |-> x, value |-> v]

MCGood ==
    [elf64    |-> TRUE,
     type     |-> "DYN",
     shstrndx |-> TRUE,
     sections |-> <<[type |-> "DYNAMIC", name |-> ".dynamic"],
                    [type |-> "STRTAB", name |-> ".dynstr"],
                    [type |-> "STRTAB", name |-> ".strtab"]>>,
     symtab   |-> <<MCSym("main", "SEC", 10), MCSym("rec_foo", "SEC", 20),
                    MCSym("rec_bar", "SEC", 30), MCSym("rec_baz", "SEC", 40),
                    MCSym("global_setup", "SEC", 50)>>,
     strtab   |-> <<"", "main", "rec_foo", "rec_bar", "global_setup", "rec_baz">>,
     tests    |-> {"rec_foo", "rec_bar", "rec_baz"},
     vaddrs   |-> <<64, 0>>,
     bias     |-> 100,
     memory   |-> [a \in {120, 130, 140} |->
                     CASE a = 120 -> MCRecord("a.c", "foo")
                       [] a = 130 -> MCRecord("a.c", "bar")
                       [] a = 140 -> MCRecord("b.c", "baz")]]

\* A record that is only declared.
MCExternal == [MCGood EXCEPT !.symtab[3].shndx = "UNDEF"]

MCImages == {MCGood, MCExternal}

MCNumber == [s \in {<<"0">>, <<"2">>, <<"-", "1">>} |->
               CASE s = <<"0">> -> 0 [] s = <<"2">> -> 2 [] OTHER -> 1000]

\* The letter e with an acute accent, in UTF-8.
MCLow == {"eacute"}

MCArgPool == {
    <<"eacute", ".c">>, <<"a.c">>, <<"b.c">>, <<"foo">>, <<"nil">>, <<"2">>, << >>,
    <<"-">>, <<"-", "x", "q">>, <<"-", "v", "j">>, <<"-", "j", "2">>, <<"-", "1">>,
    <<"-", "d">>, <<"--">>, <<"--", "ver", "sion">>, <<"--", "ver">>, <<"--", "zzz">>,
    <<"--", "capture", "=", "stdout">>, <<"--", "capture", "-none">>, <<"--", "jobs">>,
    <<"--", "jobs", "=", "0">>, <<"--", "help", "me">>}
=============================================================================
