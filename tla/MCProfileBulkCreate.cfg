\* One request at a time: BulkCreate drops the transaction's error and
\* reports the profiles as created.
CONSTANTS
    p1 = p1
    p2 = p2
    w1 = w1
    w2 = w2
    Profiles <- MCProfiles
    Workers = {w1}
    MaxVersion = 3
SYMMETRY MCSymmetry
SPECIFICATION Spec
INVARIANT ReportedCreatedExists
