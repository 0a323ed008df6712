\* Two concurrent requests: a hard DELETE whose version check passed races
\* a Patch; is a 404 answered only for a profile that is gone?
CONSTANTS
    p1 = p1
    p2 = p2
    w1 = w1
    w2 = w2
    Profiles <- MCProfiles
    Workers <- MCWorkers
    MaxVersion = 3
SYMMETRY MCSymmetry
SPECIFICATION Spec
INVARIANT NotFoundMeansGone
