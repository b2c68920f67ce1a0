SPECIFICATION Spec
CONSTANTS
    n1 = n1
    n2 = n2
    n3 = n3
    v1 = v1
    v2 = v2
    c1 = c1
    c2 = c2
    NIL = NIL
    Names <- MCNames
    Hash <- MCHash
    Classes <- MCClasses
    Vals <- MCVals
    Buckets = {1, 2}
    MaxElements = 4
SYMMETRY Symmetric
INVARIANTS KeysAreUnique NextStaysAlive
PROPERTY ImplementsMap
