SPECIFICATION Spec
CONSTANTS
    s1 = s1
    s2 = s2
    a = a
    b = b
    Sources = {s1, s2}
    Elements = {a, b}
    MaxByte = 4
    Growth = 2
    Room = 5
    MaxSetups <- MCSetups
INVARIANTS
    TypeOK
    MemoryKept
PROPERTIES
    TableRefinement
