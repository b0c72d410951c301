----------------------------- MODULE MCProgram -----------------------------
(***************************************************************************)
(* Constants for Program: two tests, executables of every kind that        *)
(* cldm_elf.c tells apart, and a few arguments.                            *)
(***************************************************************************)
EXTENDS Program

MCSym(n, x, v) == [name |-> n, shndx |-> x, value |-> v]

MCGood ==
    [elf64    |-> TRUE,
     type     |-> "DYN",
     shstrndx |-> TRUE,
     sections |-> <<[type |-> "STRTAB", name |-> ".dynstr"],
                    [type |-> "STRTAB", name |-> ".strtab"]>>,
     symtab   |-> <<MCSym("main", "SEC", 10), MCSym("rec_foo", "SEC", 20),
                    MCSym("rec_baz", "SEC", 40), MCSym("local_setup", "SEC", 50)>>,
     strtab   |-> <<"", "main", "rec_foo", "rec_baz">>,
     tests    |-> {"rec_foo", "rec_baz"},
     vaddrs   |-> <<64, 0>>,
     bias     |-> 100,
     memory   |-> [a \in {120, 140} |->
                     IF a = 120 THEN [base |-> "a.c", name |-> "foo"]
                                ELSE [base |-> "b.c", name |-> "baz"]]]

\* No section names; no .dynstr; main in a shared library; loaded where it was
\* linked to; a 32-bit file; an object file; a record that is only declared.
MCImages == {MCGood,
             [MCGood EXCEPT !.shstrndx = FALSE],
             [MCGood EXCEPT !.sections[1].name = ".other"],
             [MCGood EXCEPT !.symtab[1].shndx = "UNDEF"],
             [MCGood EXCEPT !.type = "EXEC", !.bias = 0],
             [MCGood EXCEPT !.elf64 = FALSE],
             [MCGood EXCEPT !.type = "REL"],
             [MCGood EXCEPT !.symtab[2].shndx = "UNDEF"]}

MCNumber == [s \in {<<"2">>} |-> 2]

\* The letter e with an acute accent, in UTF-8.
MCLow == {"eacute"}

MCArgPool == {<<"foo">>, <<"nil">>, <<"eacute">>, <<"-", "j", "2">>, <<"-", "x", "d", "log">>,
              <<"-", "h">>, <<"--", "capture", "=", "stdout">>}
=============================================================================
