\* One request at a time: Register, Login and UpdateMe in every order.
CONSTANTS
    i1 = i1
    i2 = i2
    n1 = n1
    n2 = n2
    w1 = w1
    w2 = w2
    NONE = NONE
    Ids <- MCIds
    Names <- MCNames
    Workers = {w1}
    MaxWrites = 14
SYMMETRY MCSymmetry
SPECIFICATION Spec
INVARIANT TypeOK UpdatedNameKept
