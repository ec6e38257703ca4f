CONSTANTS
    f1 = f1  f2 = f2  f3 = f3
    b1 = b1  b2 = b2  b3 = b3
    s1 = s1  s2 = s2
    p1 = p1  p2 = p2
    x1 = x1  x2 = x2
    Files = {f1, f2, f3}
    Subdirs = {s1, s2}
    SubdirOf <- MCSubdirOf
    Packages = {p1, p2}
    PackageOf <- MCPackageOf
    VersionOf <- MCVersionOf
    Builds = {b1, b2, b3}
    SizeOf <- MCSizeOf
    Junk = Junk
    None = None
    NoHash = NoHash
    Absent = Absent
    Unread = Unread
    Seeds <- MCSeeds
    Passes = {x1}
    Noarch = s2
    Age <- MCAge
    Same = Same
    Drifts <- MCDrifts
SPECIFICATION ReindexSpec
INVARIANT
    DeletedIsDelisted
