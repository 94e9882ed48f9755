SPECIFICATION PromisesSpec
CONSTANTS
    Task = {t1}
    Fiber = {f1, f2}
    Label = {1, 2, 3}
    Period = 2
    Hold = 2
    RunRetry = 2
    SendRetry = 1
    BootFlush = 1
    Horizon = 2
    TaskAhead <- AheadNear
    Goal = {g1}
    Finding = {x1}
    GoalStep = {s1}
    MaxActive = 1
    MaxCycles = 2
    Writer = {old, new}
    Reader = {reader}
    MarkFails = FALSE
    MaxSaves = 3
    scan = scan
    b1 = b1
    b2 = b2
    pdf = pdf
    jpg = jpg
    NoExt = NoExt
    NoBytes = NoBytes
    NoText = NoText
    Text = {scan}
    Bytes = {b1, b2}
    Ext = {pdf, jpg}
    ReadsAs <- MCReads
    ExtOf <- MCExtOf
    Uploader = {u1, u2}
    MaxTrouble = 1
    Channel = {c1}
    MaxMessage = 3
    MaxNight = 1
    MaxAmiss = 1
    Media = {m1}
    Name = {n1}
    MaxSync = 1
    Sendable <- MCSendable
CHECK_DEADLOCK FALSE
INVARIANT TasksInv
INVARIANT GoalsInv
INVARIANT ReadsSeeReturnedSaves
INVARIANT TrustedOrCut
INVARIANT OriginalsInv
INVARIANT SlackWatchInv
INVARIANT IntakeInv
PROPERTY KeptUntilTold
PROPERTY AllArrives
