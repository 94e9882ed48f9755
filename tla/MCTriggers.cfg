CONSTANTS
    Id = {i1, i2}
    Series = {i2}
    Unknown = {}
    Proc = {p1}
    f1 = f1
    f2 = f2
    Fiber = {f1, f2}
    Lease = 1
    Watch = 1
    Retry = 1
    Hold = 1
    Slack = 1
    Period = 2
    Lookback = 0
    Horizon = 3
    MaxMoves = 0
    Ahead <- AheadNear
    Rule = {r1, r2}
    Acting = {r2}
    MaxNight = 1
    MaxMisses = 1
    Place = {work}
    Pin = {pin}
    MaxOver = 1
CHECK_DEADLOCK FALSE
SPECIFICATION TriggersSpec
INVARIANTS
    RemindersInv
    EventRulesInv
    WhereaboutsInv
PROPERTIES
    DueIsHeard
