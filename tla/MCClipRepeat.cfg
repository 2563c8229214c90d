CONSTANTS
    n1 = n1 n2 = n2 n3 = n3
    t1 = t1 t2 = t2 f1 = f1 f2 = f2 f3 = f3
    NoMsg = NoMsg
    Nodes = {n1, n2}
    Mesh <- FullMesh
    Texts = {t1, t2}
    Files = {}
    Empty = {}
    TooBig = {}
    Copies <- TwoTexts
    Copiers = {n1}
    Paced = TRUE
    Fresh = FALSE
    HistorySize = 5
    MaxCopies = 3
    MaxFaults = 0
SPECIFICATION Spec
INVARIANT LastCopyEverywhere
CHECK_DEADLOCK FALSE
