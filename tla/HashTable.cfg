SPECIFICATION Spec
CONSTANTS
    k1 = k1
    k2 = k2
    k3 = k3
    k4 = k4
    Empty = Empty
    Vacant = Vacant
    Keys <- FourKeys
    HashValues = {2, 6, 10}
    StaticCapacity = 3
    MaxCapacity = 17
    MixedCapacity = 7
    Faults = {"calloc"}
SYMMETRY KeySymmetry
INVARIANTS
    RoomToStop
    NoLeak
PROPERTIES
    ImplementsKeySet
