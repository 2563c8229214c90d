CONSTANTS
    n1 = n1 n2 = n2 n3 = n3
    t1 = t1 t2 = t2 f1 = f1 f2 = f2 f3 = f3
    NoMsg = NoMsg
    Nodes = {n1, n2, n3}
    Mesh <- FullMesh
    Texts = {t1, t2}
    Files = {f1, f2}
    Empty = {}
    TooBig = {}
    Copies <- TextsAndFiles
    Copiers = {n1, n2, n3}
    Paced = TRUE
    Fresh = TRUE
    HistorySize = 4
    MaxCopies = 3
    MaxFaults = 0
SPECIFICATION Spec
SYMMETRY AllNodes
INVARIANTS
    TypeOK
    LastCopyEverywhere
    HandledOnce
    NoBatchHang
\* Users may stop copying.
CHECK_DEADLOCK FALSE
