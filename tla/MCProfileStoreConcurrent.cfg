\* Two concurrent requests: reads and writes of Update and Delete interleave
\* with each other and with Patch and the bulk calls.
CONSTANTS
    p1 = p1
    p2 = p2
    w1 = w1
    w2 = w2
    Profiles <- MCProfiles
    Workers <- MCWorkers
    MaxVersion = 3
SYMMETRY MCSymmetry
SPECIFICATION Spec
INVARIANT TypeOK
PROPERTY LifecycleSpec
