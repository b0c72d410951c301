SPECIFICATION Spec
CONSTANTS
    Nodes <- MCNodes
    Key   <- MCKey
INVARIANTS
    RedBlack
PROPERTY
    ImplementsOrderedSet
