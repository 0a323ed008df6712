\* Two concurrent requests: a Login that read the row before an UpdateMe
\* writes its stale copy back after it.
CONSTANTS
    i1 = i1
    i2 = i2
    n1 = n1
    n2 = n2
    w1 = w1
    w2 = w2
    NONE = NONE
    Ids <- MCIds
    Names <- MCNames
    Workers <- MCWorkers
    MaxWrites = 4
    IssueOutcomes = {"ok"}
SYMMETRY MCSymmetry
SPECIFICATION Spec
INVARIANT UpdatedNameKept
