\* Two concurrent requests of every kind, with or without a unique e-mail
\* index, with IssueTokens that may fail.
CONSTANTS
    i1 = i1
    i2 = i2
    n1 = n1
    n2 = n2
    w1 = w1
    w2 = w2
    NONE = NONE
    Ids <- MCIds
    Names <- MCNames
    Workers <- MCWorkers
    MaxWrites = 4
    IssueOutcomes = {"ok", "err"}
SYMMETRY MCSymmetry
SPECIFICATION Spec
INVARIANT TypeOK
