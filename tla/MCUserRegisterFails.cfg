\* One request at a time; IssueTokens may fail after the INSERT (a Redis
\* refresh store that errors): is every account one its Register answered
\* with tokens?
CONSTANTS
    i1 = i1
    i2 = i2
    n1 = n1
    n2 = n2
    w1 = w1
    w2 = w2
    NONE = NONE
    Ids <- MCIds
    Names <- MCNames
    Workers = {w1}
    MaxWrites = 2
    IssueOutcomes = {"ok", "err"}
SPECIFICATION Spec
INVARIANT AccountOnlyIfAnswered
