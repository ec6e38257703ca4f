CONSTANTS
    c1 = c1  c2 = c2  c3 = c3  c4 = c4
    u1 = u1  u2 = u2  u3 = u3  u4 = u4
    n1 = n1  n2 = n2
    p1 = p1  p2 = p2  p3 = p3
    f1 = f1  f2 = f2
    Channels = {c1, c2, c3, c4}
    Names = {n1, n2}
    Prefixes = {p1, p2, p3}
    Files = {f1, f2}
    Uploads = {u1, u2, u3, u4}
    NameOf <- MCNameOf
    PrefixOf <- MCPrefixOf
    ChannelOf <- MCChannelOf
    FileOf <- MCFileOf
    Inside <- MCInside
    Spelled <- MCSpelled
    PageSize = 2
    MaxFailures = 1
    Index = Index
    None = None
SPECIFICATION MCSpec
INVARIANTS
    LifecycleTypeOK
    OwnPrefixIsKept
    WipeIsThorough
PROPERTIES
    BytesGoInTheEnd
