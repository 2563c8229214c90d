CONSTANTS
    p1 = p1 p2 = p2 c1 = c1 c2 = c2 c3 = c3 b1 = b1 b2 = b2
    NoConn = NoConn
    Peers = {p1, p2}
    Conns = {c1, c2, c3}
    PeerOf <- TwoToOne
    Accepted = {c2}
    Manual = {c3}
    Casts = {b1}
    MaxPeers = 1
SPECIFICATION Spec
INVARIANTS
    TypeOK
    CountMatches
    EntryHasOwner
PROPERTY
    GoneLeaves
\* Every connection may be over.
CHECK_DEADLOCK FALSE
