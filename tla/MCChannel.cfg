\* Two senders racing through Send and two stream handlers through Announce,
\* against one monitor that receives from both channels.
CONSTANTS
    f1 = f1 f2 = f2 f3 = f3 t1 = t1 t2 = t2 v1 = v1
    h1 = h1 h2 = h2 h3 = h3 h4 = h4
    NoMsg = NoMsg NoAnn = NoAnn
    Messages <- MCMessages
    Senders = {s1, s2}
    Announcers = {a1, a2}
    HistorySize = 2
    PeerMaxCount = 2
    MaxLog = 4
SPECIFICATION Spec
INVARIANTS
    TypeOK
    HistoriesOK
    ServedUntilOvertaken
    HandedOverOnce
    SeenIsWindow
    NoRepeatInWindow
PROPERTY
    AnnouncesDrain
\* The run ends when MaxLog messages and announces were accepted and taken.
CHECK_DEADLOCK FALSE
