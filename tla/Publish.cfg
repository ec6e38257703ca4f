CONSTANTS
    f1 = f1  f2 = f2  f3 = f3
    b1 = b1  b2 = b2
    s1 = s1  s2 = s2
    u1 = u1  u2 = u2
    r1 = r1
    Files = {f1, f2, f3}
    Subdirs = {s1, s2}
    SubdirOf <- MCSubdirOf
    p1 = p1  p2 = p2
    Packages = {p1, p2}
    PackageOf <- MCPackageOf
    VersionOf <- MCVersionOf
    Builds = {b1, b2}
    SizeOf <- MCSizeOf
    Junk = Junk
    None = None
    NoHash = NoHash
    Absent = Absent
    Unread = Unread
    Seeds <- MCSeeds
    Uploads = {u1, u2}
    Replicas = {r1}
    ReplicaOf <- MCReplicaOf
    Batches <- MCBatches
    NoOne = NoOne
SPECIFICATION MCSpec
INVARIANTS
    TypeOK
    AckedIsListed
    IndexDescribesBytes
    OnePublisher
PROPERTIES
    ImplementsChannelIndex
    EveryRequestEnds
