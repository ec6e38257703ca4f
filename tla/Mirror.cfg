CONSTANTS
    g1 = g1  g2 = g2
    repodata = repodata
    archive = archive
    Requests = {g1, g2}
    Index = repodata
    Archives = {archive}
    TTL = 2
    Slow = 1
    None = None
    MaxTime = 4
    MaxEdition = 1
SYMMETRY MCSymmetry
SPECIFICATION Spec
INVARIANTS
    MirrorTypeOK
    StaleWithinBound
    RefreshedIsCurrent
PROPERTY
    CachedForGood
