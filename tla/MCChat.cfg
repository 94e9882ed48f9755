SPECIFICATION ChatSpec
CONSTANTS
    event = event
    forget = forget
    slack = slack
    text = text
    voice = voice
    search = search
    list = list
    write = write
    gated = gated
    Ask = {event, slack}
    Loop = {event}
    Job = {slack}
    Nested = {event}
    Turn = {text, voice}
    Chat = {text}
    TTL = 1
    MaxMessages = 4
    Window = 2
    ChunkSize = 1
    Retro = 2
    MaxEntries = 4
    Reads <- MCReads
    Writes <- MCWrites
    Asking <- MCAsking
    Searches <- MCSearches
    Untrusted <- MCSearches
    Listings <- MCListings
    Native <- MCNone
    Denied <- MCNone
    Drafts <- MCDrafts
    Tiers = 2
    MaxSteps = 4
    Claim = {claim1, claim2}
    Passing = {}
    Author = {me}
    MaxFacts = 2
    MaxSlips = 1
    r1 = r1
    k1 = k1
    p1 = p1
    Remark = {r1}
    Capture = {p1}
    Known = {k1}
    Speaks <- MCSpeaks
    MaxDay = 3
    MaxOutages = 1
    Milestone = {m1, m2}
    Dose = {dose}
    MaxAmiss = 1
CHECK_DEADLOCK FALSE
INVARIANT AsksInv
INVARIANT BurstInv
INVARIANT MemoryInv
INVARIANT LoopInv
INVARIANT FactsInv
INVARIANT RecallInv
INVARIANT KeeperInv
PROPERTY YesIsExact
PROPERTY WholeThought
PROPERTY EveryoneAnswered
PROPERTY ForgottenGoes
