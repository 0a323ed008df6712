\* Two concurrent requests: Update checks the version in Go, then writes
\* without a version predicate, so two updates of one version both succeed.
CONSTANTS
    p1 = p1
    p2 = p2
    w1 = w1
    w2 = w2
    Profiles <- MCProfiles
    Workers <- MCWorkers
    MaxVersion = 3
SYMMETRY MCSymmetry
SPECIFICATION Spec
INVARIANT NoLostUpdate
