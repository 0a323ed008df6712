\* One request at a time: Patch and Update filter on id, owner (and version)
\* but not on deleted_at, so a soft-deleted profile can still be written.
CONSTANTS
    p1 = p1
    p2 = p2
    w1 = w1
    w2 = w2
    Profiles <- MCProfiles
    Workers = {w1}
    MaxVersion = 3
SYMMETRY MCSymmetry
SPECIFICATION Spec
PROPERTY DeletedStaysDeleted
