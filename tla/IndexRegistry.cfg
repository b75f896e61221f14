CONSTANTS
    m1 = m1
    m2 = m2
    f1 = f1
    f2 = f2
    w1 = w1
    w2 = w2
    c1 = c1
    c2 = c2
    Indexes = {m1, f1, f2}
    Main = {m1}
    Ancestor <- MCAncestor
    Workers = {w1, w2}
    Collectors = {c1, c2}
    Lease = 1
    MaxPass = 1
    Limit = 1
    MaxClaims = 2
    NoIndex = NoIndex
    NoOne = NoOne
SPECIFICATION Spec
CONSTRAINTS FewClaims ClaimedFirst
SYMMETRY Symmetry
INVARIANTS IndexTypeOK StorageAgrees PinnedReady
PROPERTY ImplementsIndexCatalog
CHECK_DEADLOCK FALSE
