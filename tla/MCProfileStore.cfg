\* One request at a time: every operation, including soft/hard deletes and
\* bulk calls over both ids, keeps the version column counting the writes.
CONSTANTS
    p1 = p1
    p2 = p2
    w1 = w1
    w2 = w2
    Profiles <- MCProfiles
    Workers = {w1}
    MaxVersion = 4
SYMMETRY MCSymmetry
SPECIFICATION Spec
INVARIANT TypeOK NoLostUpdate
