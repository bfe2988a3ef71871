CONSTANTS
    Fds = {f1, f2, f3}
    Objects = {o1, o2, o3}
    Batch = 2
    Period = 2
    Late = 3
    Nobody = Nobody
    Wins = {w1, w2}
    Peer = Peer
    NONE = NONE
    Selections = {"primary", "clipboard"}
    Keys = {"shift", "alt"}
    Shifts = {"shift"}
    Levelled = {"alt"}
    ClickMs = 2
    DblClickMs = 4
    MaxQueue = 2
    MaxMs = 10
    MaxPastes = 4
    Others = {1, 2, 3}
    Root = 0
    Desktops = 1
    MaxSegments = 6
    Upto = 2
    ReplyChunk = 3
    Lives = {1, 2}
    MaxRequests = 4
    MaxClock = 1
    Socks = {s1, s2, s3}
    Tls = {tls}
    NULL = NULL
    MaxSent = 2
    Dirs = {"in", "out"}
    Paths <- SomePaths
    MaxCalls = 3
    Cap = 2
    Chunk = 2
    Scripts <- FourBytes
    Codes = {0, 3}
    Words = {0, 5}
    Kind <- FiveBytes
    BufIn = 2
    Digits = 3
    EndStr <- BlankEnd
    Most = 3
    Count = 6
    BufOut = 3
SPECIFICATION IoSpec
INVARIANTS StreamsHold DispatchesRegistered KeepsPeriod EventsRight WindowsRight OthersHold SitesRight
PROPERTIES AllGetThrough
\* A loop whose callback returned an error and a closed stream stop.
CHECK_DEADLOCK FALSE
