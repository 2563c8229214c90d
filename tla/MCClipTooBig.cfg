CONSTANTS
    n1 = n1 n2 = n2 n3 = n3
    t1 = t1 t2 = t2 f1 = f1 f2 = f2 f3 = f3
    NoMsg = NoMsg
    Nodes = {n1, n2}
    Mesh <- FullMesh
    Texts = {}
    Files = {f1, f2}
    Empty = {}
    TooBig = {f2}
    Copies <- Selection
    Copiers = {n1}
    Paced = TRUE
    Fresh = TRUE
    HistorySize = 5
    MaxCopies = 1
    MaxFaults = 0
SPECIFICATION Spec
INVARIANT LastCopyEverywhere
CHECK_DEADLOCK FALSE
