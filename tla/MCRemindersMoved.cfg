CONSTANTS
    i1 = i1
    i2 = i2
    p1 = p1
    p2 = p2
    f1 = f1
    f2 = f2
    Id = {i1, i2}
    Series = {i2}
    Unknown = {}
    Proc = {p1}
    Fiber = {f1, f2}
    Lease = 1
    Watch = 1
    Retry = 2
    Hold = 2
    Slack = 1
    Period = 3
    Lookback = 1
    Horizon = 4
    MaxMoves = 1
    Ahead <- AheadSmall
SPECIFICATION Spec
SYMMETRY FiberSymmetry
INVARIANTS
    MovedWasDelivered
