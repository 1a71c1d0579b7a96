SPECIFICATION PartsSpec
CONSTANTS
    a = a  b = b
    Callers <- ThreeCallers
    MaxGeneration = 3
    MaxRestarts = 1
    HasTTL = TRUE
    Ids <- TwoIds
    MaxHistory = 4
    MaxCalls = 2
    Keeps <- SomeKeeps
    m1 = m1  m2 = m2  m3 = m3
    s1 = s1  s2 = s2  s3 = s3
    c1 = c1  c2 = c2  c3 = c3
    w1 = w1  w2 = w2  w3 = w3  word = word  u1 = u1
    Searches <- ThreeSearches
    Carried <- SomeBatches
    Similar <- SomeSimilar
    Urls <- OneUrl
    SearchBudget = 2
    MaxQueries = 2
    MaxAttempts = 2
    Names = {"a", "b", "i"}
    Messages <- TwoElements
    Limit = 8
    ClosingSize = 1
    MaxChunks = 25
    Calls = {c1, c2}
    Incoming = {c3}
    FrameUnits = 2
    Deltas = {1, 3}
    MaxResponses = 4
    MaxPending = 4
    MaxSpeech = 3
INVARIANTS
    FreshInProcess
    AlwaysBalanced
    NothingLost
    SearchesBounded
    SearchedOnce
    UrlsShownOnce
    FormattingKept
    ChunksFit
    OwnGreeting
    NoGreetingLeft
PROPERTIES
    GenerationForward
    MessagesKept
    BargeInSilences
    SplitAdvances
CHECK_DEADLOCK FALSE
