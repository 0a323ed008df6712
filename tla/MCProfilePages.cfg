\* Three profiles, two clock ticks to the second over two seconds, pages of
\* one or two rows (?limit=1, ?limit=2, and an unparsable value that falls
\* back to 20).  Does a walk along next_cursor show every profile?
CONSTANTS
    Profiles = {p1, p2, p3}
    TicksPerSecond = 2
    MaxTick = 3
    LimitQueries = {"1", "2", "x"}
    NONE = NONE
SPECIFICATION Spec
INVARIANT CursorWalkComplete
