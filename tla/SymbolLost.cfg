SPECIFICATION Spec
CONSTANTS
    foo = foo
    bar = bar
    baz = baz
    qux = qux
    Smudge = Smudge
    Symbols = {foo, bar, baz}
    NNeeded = 2
    MaxSodeps = 2
    StaticLookup = 1
    TooLong = {}
    Recursion = FALSE
    MaxDepth = 7
    Faults = {}
INVARIANTS
    ResolveFinds
