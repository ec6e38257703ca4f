CONSTANTS
    f1 = f1  f2 = f2
    b1 = b1  b2 = b2
    s1 = s1  s2 = s2
    p1 = p1  p2 = p2
    u1 = u1  u2 = u2
    r1 = r1
    x1 = x1  x2 = x2
    Files = {f1, f2}
    Subdirs = {s1, s2}
    SubdirOf <- MCSubdirOf
    Packages = {p1}
    PackageOf <- MCPackageOf
    VersionOf <- MCVersionOf
    Builds = {b1, b2}
    SizeOf <- MCSizeOf
    Junk = Junk
    None = None
    NoHash = NoHash
    Absent = Absent
    Unread = Unread
    Seeds <- MCSeeds
    Uploads = {u1}
    Replicas = {r1}
    ReplicaOf <- MCReplicaOf
    Batches <- MCBatches
    NoOne = NoOne
    Passes = {x1}
    Noarch = s2
    Age <- MCAge
    Same = Same
    Drifts <- MCDrifts
SPECIFICATION SystemSpec
INVARIANT
    ReindexKeepsAcked
