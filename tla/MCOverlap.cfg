SPECIFICATION OverlapSpec
CONSTANTS
    one = one
    held = held
    daily = daily
    Id = {one, held, daily}
    Series = {held, daily}
    Unknown = {held}
    Proc = {p1, p2}
    f1 = f1
    f2 = f2
    Fiber = {f1, f2}
    Lease = 1
    Watch = 1
    Retry = 1
    Hold = 1
    Slack = 0
    Period = 1
    Lookback = 0
    Horizon = 2
    MaxMoves = 1
    Ahead <- AheadNear
    d1 = d1
    x1 = x1
    Doc = {d1, shot}
    Photo = {shot}
    Registered = {x1, x2}
    InText <- MCInText
    Labelled = {}
    Reader = {r1, r2}
    off = off
    Switch = {ac}
    Position = {off, on}
    Time = {t1, t2}
    MaxItems = 2
    MaxLog = 3
    MaxAmiss = 1
    Look = 2
    c1 = c1
    c2 = c2
    c3 = c3
    she = she
    owner = owner
    Saying = {c1, c2, c3}
    Lesson = {l1, l2}
    Teller = {owner, she}
    About <- MCAbout
    Near <- MCNear
    Statement <- MCStatement
    TotalNeeded = 1
    Trailing = 1
    HoldEvery = 3
    AutoRecent = 1
    MarksKept = 1
    MaxFiles = 3
    MaxEntries = 3
    MaxMishaps = 1
    job1 = job1
    Job = {job1, job2}
    Picks = {"sonnet"}
    MaxExit = 1
    ModelCall = {call1, call2}
    Turn = {turn1}
    Budget = 1
    GuestCap = 1
    AlertAt = 1
    QuotaAt = 1
    Attempts = 2
    MaxCost = 1
    MaxTokens = 1
    MaxLost = 1
CHECK_DEADLOCK FALSE
INVARIANTS
    PromiseInv
    ReadingInv
    UndoInv
    
    ReviewInv
    CodeInv
    RouterInv
PROPERTIES
    KeepsDelivery
    NothingDropped
