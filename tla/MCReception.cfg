SPECIFICATION Spec
CONSTANTS
    s1 = s1
    s2 = s2
    s3 = s3
    s4 = s4
    m1 = m1
    m2 = m2
    m3 = m3
    b1 = b1
    Streams = {s1, s2, s3, s4}
    MsgOf <- MCMsgOf
    NoBatch = NoBatch
    NoFile = NoFile
    Hole = Hole
    BatchIDs = {b1}
    IDs = {m1, m2, m3}
    Data <- MCData
    Total <- MCTotal
    Missing = Missing
    NoState = NoState
    NoData = NoData
    MaxTimers = 3
INVARIANTS TypeOK PastedIntact TwiceIntact
PROPERTIES PromiseKept NoBatchLeaks
CHECK_DEADLOCK FALSE
