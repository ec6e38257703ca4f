CONSTANTS
    f1 = f1  f2 = f2
    b1 = b1  b2 = b2
    s1 = s1
    p1 = p1
    x1 = x1  x2 = x2
    Files = {f1, f2}
    Subdirs = {s1}
    SubdirOf <- MCSubdirOf
    Packages = {p1}
    PackageOf <- MCPackageOf
    VersionOf <- MCVersionOf
    Builds = {b1, b2}
    SizeOf <- MCSizeOf
    Junk = Junk
    None = None
    NoHash = NoHash
    Absent = Absent
    Unread = Unread
    Seeds <- MCSeeds
    Passes = {x1, x2}
    Noarch = s1
    Age <- MCAge
    Same = Same
    Drifts <- MCDrifts
    Slots = {1, 2, 3}
    Payloads <- MCPayloads
    Upstream <- MCUpstream
    Width = 2
SPECIFICATION MCSpec
INVARIANTS
    ImportTypeOK
    EveryItemCounted
    ImportedIsKept
PROPERTIES
    CompletedIsFinal
