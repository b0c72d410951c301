SPECIFICATION Spec
CONSTANTS
    foo = foo
    bar = bar
    baz = baz
    qux = qux
    Smudge = Smudge
    Symbols = {foo, bar, baz, qux}
    NNeeded = 3
    MaxSodeps = 2
    StaticLookup = 2
    TooLong = {qux}
    Recursion = FALSE
    MaxDepth = 8
    Faults = {"dlopen", "malloc", "realloc", "insert"}
SYMMETRY Fitting
INVARIANTS
    FirstDefiner
    WrapperAdvances
    AllReleased
