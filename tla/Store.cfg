SPECIFICATION Spec
CONSTANTS
    a = a
    dotA = dotA
    up = up
    empty = empty
    v1 = v1
    v2 = v2
    Key <- MCKey
    Plain <- MCPlain
    File <- MCFile
    filePath <- MCfilePath
    Empty = empty
    Value = {v1, v2}
    Absent = Absent
    Torn = Torn
    NoCall = NoCall
SYMMETRY Symmetry
INVARIANT StoreOK
PROPERTY ImplementsMap
