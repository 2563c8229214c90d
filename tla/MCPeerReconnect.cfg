CONSTANTS
    p1 = p1 p2 = p2 c1 = c1 c2 = c2 c3 = c3 b1 = b1 b2 = b2
    NoConn = NoConn
    Peers = {p1, p2}
    Conns = {c1, c2}
    PeerOf <- TwoToOne
    Accepted = {c2}
    Manual = {}
    Casts = {}
    MaxPeers = 5
SPECIFICATION Spec
INVARIANT LivePeerRegistered
CHECK_DEADLOCK FALSE
