CONSTANTS
    j1 = j1  j2 = j2
    a1 = a1  a2 = a2
    c1 = c1
    e1 = e1  e2 = e2
    Rows = {1, 2, 3}
    Editions = {e1, e2}
    Ranged = {1}
    Oversized = {3}
    Pods = {a1, a2}
    Jobs = {j1, j2}
    Consoles = {c1}
    PodOf <- MCPodOf
    JobLimit = 2
    SweepLimits = {0, 1, 2}
    CommitEvery = 2
    Width = 2
    MaxEvents = 2
    Gone = Gone
    Blank = Blank
    Unread = Unread
    None = None
    Archives <- MCArchives
    Window = 1
    WindowMax = 16
    Slack = 2
    EndRec = 1
    Locator = 1
    MaxComment = 3
    r1 = r1  r2 = r2  r3 = r3  r4 = r4  r5 = r5  r6 = r6  r7 = r7
    v1 = v1  v1x = v1x  v2 = v2  x1 = x1  x2 = x2
    Artifacts = {r1, r2, r3, r4, r5, r6, r7}
    Spellings = {v1, v1x, v2, x1, x2}
    Parsed <- MCParsed
    Text <- MCText
    VersionOf <- MCVersionOf
    NumberOf <- MCNumberOf
    PlaceOf <- MCPlaceOf
    HasAbout = {r2, r4, r5, r7}
    Unparsed = Unparsed
SPECIFICATION MCSpec
INVARIANTS
    BackfillTypeOK
    AboutDescribesBytes
    CountsAreKept
    SilenceMeansDone
    OneJobAtATime
    RangedAgrees
    RequestsInside
    RanksMatchOrder
    AboutFromNewest
PROPERTIES
    EveryRowIsReached
    EveryJobEnds
    EveryReadEnds
    PagesAgree
