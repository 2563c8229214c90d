CONSTANTS
    t1 = t1 i1 = i1 p1 = p1 r1 = r1 r2 = r2
    NoContent = NoContent NoHash = NoHash
    Texts = {t1}
    Images = {}
    Paths = {p1}
    Big = {t1}
    Backends = {"x11", "wlr", "wl_clipboard", "windows", "mac", "android", "null"}
    Readers = {r1, r2}
    AllowCopyFiles = TRUE
    LocalBuffer = 1
    UpdateBuffer = 1
    MaxCopies = 2
    MaxWrites = 1
SPECIFICATION Spec
INVARIANTS
    TypeOK
    LoopProtected
    SettledAgrees
PROPERTY
    WatchEnds
\* Users may stop copying.
CHECK_DEADLOCK FALSE
