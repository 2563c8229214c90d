CONSTANTS
    n1 = n1 n2 = n2 n3 = n3
    t1 = t1 t2 = t2 f1 = f1 f2 = f2 f3 = f3
    NoMsg = NoMsg
    Nodes = {n1, n2}
    Mesh <- FullMesh
    Texts = {t1}
    Files = {f1, f2, f3}
    Empty = {}
    TooBig = {f3}
    Copies <- Selections
    Copiers = {n1, n2}
    Paced = FALSE
    Fresh = FALSE
    HistorySize = 3
    MaxCopies = 2
    MaxFaults = 2
SPECIFICATION Spec
INVARIANTS
    NeverMixed
    NeverTorn
CHECK_DEADLOCK FALSE
