--------------------------- MODULE EventfulProofs ---------------------------
(***************************************************************************)
(* The clipboard backends, for any contents, readers, buffers and numbers  *)
(* of copies and writes: the types, what keeps a node from sending back    *)
(* what it was sent, and what a settled clipboard holds.                   *)
(***************************************************************************)
EXTENDS Eventful, TLAPS

Kinds == {"none", "text", "image", "path"}
Bys   == {"user", "node"}
Cs    == Contents \cup {NoContent}
Clips == [c : Cs, kind : Kinds, by : Bys]
Notes == [ev : {"owner", "targets", "data"}, c : Cs, kind : Kinds, by : Bys]
AnyItem == [as : {"bytes", "list", "name", "part"}, c : Cs, by : Bys]
Places == {"idle", "incr", "read", "load", "store", "send", "sending"}

\* A reader that checks or sends has something to check or send, and only wlr
\* has more than one reader.
ReaderOK(r, v) ==
    /\ v \in [at : Places, todo : Seq(AnyItem)]
    /\ v.at = "idle" => v = Idle
    /\ v.at \in {"load", "store", "send", "sending"} => v.todo # <<>>
    /\ v.at = "read" /\ backend = "wlr" => v.todo # <<>>
    /\ v.at = "read" => backend \in {"wlr", "windows", "mac"}
    /\ v.at = "incr" => backend = "x11"
    /\ v.at = "sending" => backend = "wlr"
    /\ backend # "wlr" /\ r # Main => v = Idle

ReadersOK ==
    /\ rd \in [Readers -> [at : Places, todo : Seq(AnyItem)]]
    /\ \A r \in Readers : ReaderOK(r, rd[r])

\* What is left of the Write in progress.
MarkSet     == {<<"mark", "set">>, <<"set">>}
SuppressSet == {<<"suppress", "set">>, <<"set">>}
MacSteps    == {<<"suppress", "clear", "set", "mark">>, <<"clear", "set", "mark">>,
                <<"set", "mark">>, <<"mark">>}
StepsLeft ==
    CASE backend \in {"x11", "wl_clipboard", "android"} -> MarkSet
      [] backend \in {"wlr", "windows"}                 -> SuppressSet
      [] backend = "mac"                                -> MacSteps
      [] backend = "null"                               -> {<<"mark">>}

RestOK ==
    /\ clip \in Clips
    /\ notes \in Seq(Notes)
    /\ dirty \in BOOLEAN /\ barrier \in BOOLEAN /\ disturbed \in BOOLEAN /\ ctx \in BOOLEAN
    /\ incoming \in Seq(AnyItem) /\ Len(incoming) <= LocalBuffer
    /\ barrier => backend \in {"wlr", "windows", "mac"}
    /\ watch \in {"on", "flagged", "closed"}
    /\ watch = "flagged" => backend = "wlr"
    /\ watch # "on" => ctx
    /\ backend = "null" /\ dirty => clip.kind # "none"
    /\ backend \in {"wl_clipboard", "mac", "null"} => notes = <<>>
    /\ backend \notin {"android", "null"} => incoming = <<>>
    /\ dirty => backend \in {"wl_clipboard", "mac", "null"}
    /\ queued \in 0..UpdateBuffer /\ held \in BOOLEAN /\ gone \in BOOLEAN

WriteOK == wr # NoWrite => wr \in [c : Contents, steps : StepsLeft]

\* TypeOK made inductive: where each backend's parts can be.
Shape == backend \in Backends /\ ReadersOK /\ WriteOK /\ RestOK

-----------------------------------------------------------------------------
(* The operators. *)

\* There is a main reader: every backend has at least one goroutine.
LEMMA MainIsReader == Main \in Readers
BY ReadersAssumption DEF Main

\* What a read of the clipboard yields is that content, by whom it was put
\* there, and nothing when there is nothing.
LEMMA ItemsOf ==
    ASSUME NEW k, k.c \in Cs, k.kind \in Kinds, k.by \in Bys
    PROVE  /\ Items(k) \in Seq(AnyItem)
           /\ \A i \in DOMAIN Items(k) : Items(k)[i].c = k.c /\ Items(k)[i].by = k.by
<1>1. \A as \in {"bytes", "list", "name"} :
         /\ Item(as, k.c, k.by) \in AnyItem
         /\ Item(as, k.c, k.by).c = k.c /\ Item(as, k.c, k.by).by = k.by
  BY DEF Item, AnyItem
<1> DEFINE list == Item("list", k.c, k.by)
           name == Item("name", k.c, k.by)
           bytes == Item("bytes", k.c, k.by)
<1>2. Items(k) \in {<<>>, <<bytes>>, <<list>>, <<list>> \o <<name>>, <<>> \o <<name>>}
  BY Zenon DEF Items
<1>3. list \in AnyItem /\ name \in AnyItem /\ bytes \in AnyItem
  BY <1>1
<1>4. \A x \in {list, name, bytes} : x.c = k.c /\ x.by = k.by
  BY <1>1
<1> HIDE DEF list, name, bytes
<1>5. <<list>> \in Seq(AnyItem) /\ <<name>> \in Seq(AnyItem) /\ <<bytes>> \in Seq(AnyItem)
  BY <1>3
<1>6. /\ <<list>> \o <<name>> \in Seq(AnyItem) /\ <<>> \o <<name>> = <<name>>
      /\ Len(<<list>> \o <<name>>) = 2
      /\ (<<list>> \o <<name>>)[1] = list /\ (<<list>> \o <<name>>)[2] = name
  BY <1>5
<1>7. CASE Items(k) = <<list>> \o <<name>>
  <2>1. DOMAIN Items(k) = 1..2
    BY <1>6, <1>7
  <2> QED
    BY <1>4, <1>6, <1>7, <2>1
<1>8. CASE Items(k) \in {<<>>, <<bytes>>, <<list>>, <<name>>}
  <2>1. CASE Items(k) = <<>>
    BY <2>1
  <2>2. ASSUME NEW x \in {list, name, bytes}, Items(k) = <<x>>
        PROVE  /\ Items(k) \in Seq(AnyItem)
               /\ \A i \in DOMAIN Items(k) : Items(k)[i].c = k.c /\ Items(k)[i].by = k.by
    <3>1. DOMAIN <<x>> = 1..1 /\ <<x>>[1] = x
      OBVIOUS
    <3> QED
      BY <1>4, <1>5, <2>2, <3>1
  <2> QED
    BY <1>8, <2>1, <2>2
<1> QED
  BY <1>2, <1>6, <1>7, <1>8

\* Checking starts with the first item, or ends at once.
LEMMA CheckingOK ==
    ASSUME NEW q \in Seq(AnyItem)
    PROVE  /\ Checking(q) \in [at : Places, todo : Seq(AnyItem)]
           /\ Checking(q).at \in {"idle", "load"} /\ Checking(q).todo = q
           /\ Checking(q).at = "idle" => Checking(q) = Idle
           /\ Checking(q).at = "load" => Checking(q).todo # <<>>
BY DEF Checking, Idle, Places

\* A Write goes through its backend's steps in order.
LEMMA WrittenOK ==
    ASSUME backend \in Backends, wr \in [c : Contents, steps : StepsLeft], Written, UNCHANGED backend
    PROVE  /\ wr' # NoWrite => wr' \in [c : Contents, steps : StepsLeft'] /\ wr'.c = wr.c
           /\ backend \in {"x11", "wl_clipboard", "android"} =>
                 \/ wr.steps = <<"mark", "set">> /\ wr' = [c |-> wr.c, steps |-> <<"set">>]
                 \/ wr.steps = <<"set">> /\ wr' = NoWrite
           /\ backend \in {"wlr", "windows"} =>
                 \/ wr.steps = <<"suppress", "set">> /\ wr' = [c |-> wr.c, steps |-> <<"set">>]
                 \/ wr.steps = <<"set">> /\ wr' = NoWrite
           /\ backend = "mac" =>
                 \/ wr.steps = <<"suppress", "clear", "set", "mark">>
                      /\ wr' = [c |-> wr.c, steps |-> <<"clear", "set", "mark">>]
                 \/ wr.steps = <<"clear", "set", "mark">>
                      /\ wr' = [c |-> wr.c, steps |-> <<"set", "mark">>]
                 \/ wr.steps = <<"set", "mark">> /\ wr' = [c |-> wr.c, steps |-> <<"mark">>]
                 \/ wr.steps = <<"mark">> /\ wr' = NoWrite
           /\ backend = "null" => wr.steps = <<"mark">> /\ wr' = NoWrite
<1>1. /\ Tail(<<"mark", "set">>) = <<"set">> /\ Len(<<"mark", "set">>) # 1
      /\ Tail(<<"suppress", "set">>) = <<"set">> /\ Len(<<"suppress", "set">>) # 1
      /\ Tail(<<"suppress", "clear", "set", "mark">>) = <<"clear", "set", "mark">>
      /\ Len(<<"suppress", "clear", "set", "mark">>) # 1
      /\ Tail(<<"clear", "set", "mark">>) = <<"set", "mark">> /\ Len(<<"clear", "set", "mark">>) # 1
      /\ Tail(<<"set", "mark">>) = <<"mark">> /\ Len(<<"set", "mark">>) # 1
      /\ Len(<<"set">>) = 1 /\ Len(<<"mark">>) = 1
  OBVIOUS
<1>2. wr' = IF Len(wr.steps) = 1 THEN NoWrite ELSE [c |-> wr.c, steps |-> Tail(wr.steps)]
  BY DEF Written
<1>3. wr.c \in Contents /\ wr.steps \in StepsLeft /\ StepsLeft' = StepsLeft
  BY DEF StepsLeft
<1>4. backend \in {"x11", "wlr", "wl_clipboard", "windows", "mac", "android", "null"}
  BY BackendsKnown
<1>5. CASE backend \in {"x11", "wl_clipboard", "android"}
  <2>1. StepsLeft = MarkSet
    BY <1>5 DEF StepsLeft
  <2> QED
    BY <1>1, <1>2, <1>3, <1>5, <2>1 DEF MarkSet
<1>6. CASE backend \in {"wlr", "windows"}
  <2>1. StepsLeft = SuppressSet
    BY <1>6 DEF StepsLeft
  <2> QED
    BY <1>1, <1>2, <1>3, <1>6, <2>1 DEF SuppressSet
<1>7. CASE backend = "mac"
  <2>1. StepsLeft = MacSteps
    BY <1>7 DEF StepsLeft
  <2>2. \/ wr.steps = <<"suppress", "clear", "set", "mark">>
        \/ wr.steps = <<"clear", "set", "mark">> \/ wr.steps = <<"set", "mark">>
        \/ wr.steps = <<"mark">>
    BY <1>3, <2>1 DEF MacSteps
  <2> QED
    BY <1>1, <1>2, <1>3, <1>7, <2>1, <2>2, Zenon DEF MacSteps
<1>8. CASE backend = "null"
  <2>1. StepsLeft = {<<"mark">>}
    BY <1>8 DEF StepsLeft
  <2> QED
    BY <1>1, <1>2, <1>3, <1>8, <2>1
<1> QED
  BY <1>4, <1>5, <1>6, <1>7, <1>8

-----------------------------------------------------------------------------
(* The types. *)

\* One reader moves, the others stay where they are.
LEMMA ReaderMoves ==
    ASSUME ReadersOK, NEW r \in Readers, NEW v, ReaderOK(r, v),
           rd' = [rd EXCEPT ![r] = v], UNCHANGED backend
    PROVE  /\ ReadersOK'
           /\ rd'[r] = v /\ \A s \in Readers : s # r => rd'[s] = rd[s]
<1>1. v \in [at : Places, todo : Seq(AnyItem)]
  BY DEF ReaderOK
<1>2. /\ rd' \in [Readers -> [at : Places, todo : Seq(AnyItem)]]
      /\ rd'[r] = v /\ \A s \in Readers : s # r => rd'[s] = rd[s]
  BY <1>1 DEF ReadersOK
<1>3. \A s, w : ReaderOK(s, w)' = ReaderOK(s, w)
  BY DEF ReaderOK
<1> QED
  BY <1>2, <1>3 DEF ReadersOK

\* A change of the clipboard is noted or makes it dirty.
LEMMA ChangedOK ==
    ASSUME Shape, UNCHANGED backend, NEW c \in Contents, NEW by \in Bys,
           NEW kind \in {"text", "image", "path"}, Changed(c, kind, by)
    PROVE  /\ clip' = [c |-> c, kind |-> kind, by |-> by] /\ clip' \in Clips
           /\ notes' \in Seq(Notes) /\ dirty' \in BOOLEAN
           /\ backend \in {"wl_clipboard", "mac", "null"} => notes' = notes
           /\ backend \in {"x11", "wlr", "windows", "android"} =>
                 notes' = Append(notes, [ev |-> "owner", c |-> c, kind |-> kind, by |-> by])
           /\ dirty' => backend \in {"wl_clipboard", "mac", "null"}
           /\ clip'.kind # "none"
<1>1. clip' = [c |-> c, kind |-> kind, by |-> by] /\ clip' \in Clips /\ clip'.kind # "none"
  BY DEF Changed, Clips, Cs, Kinds, Bys
<1>2. [ev |-> "owner", c |-> c, kind |-> kind, by |-> by] \in Notes
  BY DEF Notes, Cs, Kinds, Bys
<1>3. notes \in Seq(Notes) /\ dirty \in BOOLEAN /\ backend \in Backends
  BY DEF Shape, RestOK
<1>4. Append(notes, [ev |-> "owner", c |-> c, kind |-> kind, by |-> by]) \in Seq(Notes)
  BY <1>2, <1>3
<1>5. /\ notes' \in Seq(Notes) /\ dirty' \in BOOLEAN
      /\ backend \in {"wl_clipboard", "mac", "null"} => notes' = notes
      /\ backend \in {"x11", "wlr", "windows", "android"} =>
                 notes' = Append(notes, [ev |-> "owner", c |-> c, kind |-> kind, by |-> by])
  BY <1>3, <1>4 DEF Changed
<1>6. dirty' => backend \in {"wl_clipboard", "mac", "null"}
  BY DEF Changed, Shape, RestOK
<1> QED
  BY <1>1, <1>5, <1>6

\* Both kinds of a content are kinds the backends tell apart.
LEMMA KindOfOK ==
    ASSUME NEW c
    PROVE  KindOf(c) \in {"text", "image", "path"} /\ KindWritten(c) \in {"text", "image", "path"}
BY DEF KindOf, KindWritten

\* Every backend starts in shape.
LEMMA InitShape == Init => Shape
<1> SUFFICES ASSUME Init PROVE Shape
  OBVIOUS
<1>1. clip \in Clips
  BY DEF Init, Empty, Clips, Cs, Kinds, Bys
<1>2. Idle \in [at : Places, todo : Seq(AnyItem)] /\ \A r \in Readers : ReaderOK(r, Idle)
  BY DEF Idle, Places, ReaderOK
<1>3. ReadersOK
  BY <1>2 DEF Init, ReadersOK
<1>4. incoming \in Seq(AnyItem) /\ Len(incoming) <= LocalBuffer /\ notes \in Seq(Notes)
  BY BuffersFit DEF Init
<1>5. queued \in 0..UpdateBuffer
  BY BuffersFit DEF Init
<1>6. held \in BOOLEAN /\ gone \in BOOLEAN
  BY Zenon DEF Init
<1>7. RestOK
  BY <1>1, <1>4, <1>5, <1>6 DEF Init, RestOK
<1> QED
  BY <1>3, <1>7 DEF Init, Shape, WriteOK

\* A step that touches no reader and no Write keeps those parts in shape.
LEMMA SameReaders ==
    ASSUME Shape, UNCHANGED <<backend, rd>>
    PROVE  ReadersOK'
BY DEF Shape, ReadersOK, ReaderOK

\* The same for Write.
LEMMA SameWrite ==
    ASSUME Shape, UNCHANGED <<backend, wr>>
    PROVE  WriteOK'
BY DEF Shape, WriteOK, StepsLeft

\* The update channel holds no more than its capacity.
LEMMA QueueOK ==
    ASSUME Shape, Queue
    PROVE  queued' \in 0..UpdateBuffer
BY BuffersFit DEF Queue, Shape, RestOK

\* The steps of the user and of Write.
LEMMA WriteStepShape ==
    ASSUME Shape, (\E c \in Contents : UserCopy(c) \/ StartWrite(c)) \/ WriteStep \/ WriteFails
    PROVE  Shape'
<1> USE DEF os, flow, life, score, count
<1>1. ASSUME NEW c \in Contents, UserCopy(c) PROVE Shape'
  <2>1. ReadersOK' /\ WriteOK' /\ backend' \in Backends
    BY <1>1, SameReaders, SameWrite DEF UserCopy, Shape
  <2>2. UNCHANGED backend /\ Changed(c, KindOf(c), "user") /\ KindOf(c) \in {"text", "image", "path"}
    BY <1>1, KindOfOK DEF UserCopy
  <2>3. "user" \in Bys
    BY DEF Bys
  <2> QED
    BY <1>1, <2>1, <2>2, <2>3, ChangedOK DEF UserCopy, Shape, RestOK
<1>2. ASSUME NEW c \in Contents, StartWrite(c) PROVE Shape'
  <2>1. ReadersOK' /\ backend' \in Backends
    BY <1>2, SameReaders DEF StartWrite, Shape
  <2>2. WriteSteps \in StepsLeft /\ StepsLeft' = StepsLeft
    BY <1>2, BackendsKnown DEF StartWrite, Shape, WriteSteps, StepsLeft, MarkSet, SuppressSet, MacSteps,
          X11Write, WlrWrite, WlClipboardWrite, WindowsWrite, MacWrite, AndroidWrite, NullWrite
  <2>3. WriteOK'
    BY <1>2, <2>2 DEF StartWrite, WriteOK
  <2> QED
    BY <1>2, <2>1, <2>3 DEF StartWrite, Shape, RestOK
<1>3. ASSUME wr # NoWrite, UNCHANGED <<backend, rd>>, Written
      PROVE  ReadersOK' /\ WriteOK' /\ backend' \in Backends /\ wr.c \in Contents
  BY <1>3, SameReaders, WrittenOK DEF Shape, WriteOK
<1>4. CASE WriteMark
  BY <1>3, <1>4 DEF WriteMark, Shape, RestOK
<1>5. CASE Suppress
  <2>1. backend \in {"wlr", "windows", "mac"}
    BY <1>5, BackendsKnown DEF Suppress, Shape, WriteOK, StepsLeft, MarkSet
  <2> QED
    BY <1>3, <1>5, <2>1 DEF Suppress, Shape, RestOK
<1>6. CASE MacClear
  <2>1. backend = "mac"
    BY <1>6, BackendsKnown DEF MacClear, Shape, WriteOK, StepsLeft, MarkSet, SuppressSet
  <2>2. Empty \in Clips
    BY DEF Empty, Clips, Cs, Kinds, Bys
  <2> QED
    BY <1>3, <1>6, <2>1, <2>2 DEF MacClear, Shape, RestOK
<1>7. CASE WriteSet
  <2>1. ReadersOK' /\ WriteOK' /\ backend' \in Backends /\ wr.c \in Contents
    BY <1>3, <1>7 DEF WriteSet
  <2>2. CASE backend = "mac"
    <3>1. [c |-> wr.c, kind |-> KindOf(wr.c), by |-> "node"] \in Clips
      BY <2>1, KindOfOK DEF Clips, Cs, Kinds, Bys
    <3> QED
      BY <1>7, <2>1, <2>2, <3>1 DEF WriteSet, Shape, RestOK
  <2>3. CASE backend # "mac"
    <3>1. UNCHANGED backend /\ Changed(wr.c, KindWritten(wr.c), "node")
             /\ KindWritten(wr.c) \in {"text", "image", "path"}
      BY <1>7, <2>3, KindOfOK DEF WriteSet
    <3>2. "node" \in Bys
      BY DEF Bys
    <3> QED
      BY <1>7, <2>1, <3>1, <3>2, ChangedOK DEF WriteSet, Shape, RestOK
  <2> QED
    BY <2>2, <2>3
<1>8. CASE WriteFails
  <2>1. ReadersOK' /\ WriteOK'
    BY <1>8, SameReaders DEF WriteFails, WriteOK
  <2> QED
    BY <1>8, <2>1 DEF WriteFails, Shape, RestOK
<1> QED
  BY <1>1, <1>2, <1>4, <1>5, <1>6, <1>7, <1>8 DEF WriteStep

\* A reader goes to place p and keeps what it has to do.
LEMMA AtMoves ==
    ASSUME ReadersOK, NEW r \in Readers, NEW p
    PROVE  /\ [rd EXCEPT ![r].at = p] = [rd EXCEPT ![r] = [at |-> p, todo |-> rd[r].todo]]
           /\ [rd[r] EXCEPT !.at = p] = [at |-> p, todo |-> rd[r].todo]
<1>1. rd[r] \in [at : Places, todo : Seq(AnyItem)]
  BY DEF ReadersOK
<1>2. ASSUME NEW Q, NEW v \in [at : Places, todo : Q]
      PROVE  [v EXCEPT !.at = p] = [at |-> p, todo |-> v.todo]
  OBVIOUS
<1>3. [rd[r] EXCEPT !.at = p] = [at |-> p, todo |-> rd[r].todo]
  BY <1>1, <1>2
<1> QED
  BY <1>3

\* Where a reader may be sent: to check what it has got, or back to idle.
LEMMA ReaderPlaces ==
    ASSUME Shape, NEW r \in Readers, backend = "wlr" \/ r = Main
    PROVE  /\ ReaderOK(r, Idle)
           /\ \A q \in Seq(AnyItem) : ReaderOK(r, Checking(q))
           /\ \A q \in Seq(AnyItem) :
                 q # <<>> \/ backend \in {"windows", "mac"} =>
                    (backend \in {"wlr", "windows", "mac"} => ReaderOK(r, [at |-> "read", todo |-> q]))
           /\ \A q \in Seq(AnyItem) : backend = "x11" => ReaderOK(r, [at |-> "incr", todo |-> q])
           /\ \A q \in Seq(AnyItem) : q # <<>> => ReaderOK(r, [at |-> "store", todo |-> q])
           /\ \A q \in Seq(AnyItem) : q # <<>> => ReaderOK(r, [at |-> "send", todo |-> q])
           /\ \A q \in Seq(AnyItem) :
                 q # <<>> /\ backend = "wlr" => ReaderOK(r, [at |-> "sending", todo |-> q])
<1>1. Idle \in [at : Places, todo : Seq(AnyItem)] /\ ReaderOK(r, Idle)
  BY DEF ReaderOK, Idle, Places
<1>2. ASSUME NEW q \in Seq(AnyItem) PROVE ReaderOK(r, Checking(q))
  <2>1. /\ Checking(q) \in [at : Places, todo : Seq(AnyItem)]
        /\ Checking(q).at \in {"idle", "load"} /\ Checking(q).todo = q
        /\ Checking(q).at = "idle" => Checking(q) = Idle
        /\ Checking(q).at = "load" => Checking(q).todo # <<>>
    BY CheckingOK
  <2> QED
    BY <2>1 DEF ReaderOK
<1>3. ASSUME NEW q \in Seq(AnyItem), NEW p \in Places
      PROVE  /\ [at |-> p, todo |-> q] \in [at : Places, todo : Seq(AnyItem)]
             /\ [at |-> p, todo |-> q].at = p /\ [at |-> p, todo |-> q].todo = q
  OBVIOUS
<1>4. ASSUME NEW q \in Seq(AnyItem), NEW p \in Places, p # "idle",
             p = "read" => backend \in {"wlr", "windows", "mac"},
             p = "incr" => backend = "x11", p = "sending" => backend = "wlr",
             q # <<>> \/ p = "incr" \/ (p = "read" /\ backend # "wlr")
      PROVE  ReaderOK(r, [at |-> p, todo |-> q])
  BY <1>3, <1>4 DEF ReaderOK
<1>5. "read" \in Places /\ "incr" \in Places /\ "store" \in Places /\ "send" \in Places /\ "sending" \in Places
  BY DEF Places
<1> QED
  BY <1>1, <1>2, <1>4, <1>5

\* The notes and clips that are read.
LEMMA ReadsOK ==
    ASSUME Shape
    PROVE  /\ Items(clip) \in Seq(AnyItem)
           /\ \A i \in DOMAIN Items(clip) : Items(clip)[i].c = clip.c /\ Items(clip)[i].by = clip.by
           /\ notes # <<>> =>
                /\ Head(notes) \in Notes /\ Tail(notes) \in Seq(Notes)
                /\ Items(Head(notes)) \in Seq(AnyItem)
                /\ \A i \in DOMAIN Items(Head(notes)) :
                      /\ Items(Head(notes))[i].c = Head(notes).c
                      /\ Items(Head(notes))[i].by = Head(notes).by
<1>1. clip \in Clips /\ notes \in Seq(Notes)
  BY DEF Shape, RestOK
<1>2. clip.c \in Cs /\ clip.kind \in Kinds /\ clip.by \in Bys
  BY <1>1 DEF Clips
<1>3. ASSUME notes # <<>>
      PROVE  Head(notes) \in Notes /\ Tail(notes) \in Seq(Notes)
  BY <1>1, <1>3
<1>4. ASSUME notes # <<>>
      PROVE  Head(notes).c \in Cs /\ Head(notes).kind \in Kinds /\ Head(notes).by \in Bys
  BY <1>3, <1>4 DEF Notes
<1> QED
  BY <1>2, <1>3, <1>4, ItemsOf

\* Asking the owner of the x11 selection queues a well-formed event.
LEMMA AskOK ==
    ASSUME Shape, NEW ev \in {"targets", "data"}
    PROVE  Ask(ev) \in Seq(Notes)
<1>1. clip \in Clips
  BY DEF Shape, RestOK
<1>2. [ev |-> ev, c |-> clip.c, kind |-> clip.kind, by |-> clip.by] \in Notes
  BY <1>1 DEF Clips, Notes
<1> QED
  BY <1>2 DEF Ask

\* Learning of a change keeps the shape.
LEMMA NoticeShape ==
    ASSUME Shape, \/ X11Wait \/ X11Owner \/ X11Targets \/ X11Data \/ X11IncrDrops \/ X11IncrDone
                  \/ WindowsUpdate \/ MacTick \/ ReadClipboard \/ OpenFails \/ WlClipboardTick
                  \/ PushLocalCopy
    PROVE  Shape'
<1> USE DEF os, flow, life, score, count
<1>0. Main \in Readers
  BY MainIsReader
<1>m. ASSUME NEW v, ReaderOK(Main, v), rd' = [rd EXCEPT ![Main] = v], UNCHANGED backend
      PROVE  ReadersOK'
  BY <1>m, <1>0, ReaderMoves DEF Shape
<1>t. rd[Main].todo \in Seq(AnyItem)
  BY <1>0 DEF Shape, ReadersOK
<1>1. CASE X11Wait
  BY <1>1, SameReaders, SameWrite DEF X11Wait, Shape, RestOK
<1>2. CASE X11Owner
  <2>1. notes' \in Seq(Notes)
    <3>1. Ask("targets") \in Seq(Notes) /\ Tail(notes) \in Seq(Notes) /\ <<>> \in Seq(Notes)
      BY <1>2, AskOK, ReadsOK DEF X11Owner, X11Handles, Handling
    <3> QED
      BY <1>2, <3>1 DEF X11Owner
  <2> QED
    BY <1>2, <2>1, SameReaders, SameWrite DEF X11Owner, X11Handles, Handling, Shape, RestOK
<1>3. CASE X11Targets
  <2>1. notes' \in Seq(Notes)
    <3>1. Ask("data") \in Seq(Notes) /\ Tail(notes) \in Seq(Notes) /\ <<>> \in Seq(Notes)
      BY <1>3, AskOK, ReadsOK DEF X11Targets, X11Handles, Handling
    <3> QED
      BY <1>3, <3>1 DEF X11Targets
  <2> QED
    BY <1>3, <2>1, SameReaders, SameWrite DEF X11Targets, X11Handles, Handling, Shape, RestOK
<1>4. CASE X11Data
  <2>1. notes' \in Seq(Notes) /\ Items(Head(notes)) \in Seq(AnyItem)
    BY <1>4, ReadsOK DEF X11Data, X11Handles, Handling
  <2>2. ReadersOK'
    <3>1. /\ ReaderOK(Main, [at |-> "incr", todo |-> Items(Head(notes))])
          /\ ReaderOK(Main, Checking(Items(Head(notes))))
      BY <1>0, <1>4, <2>1, ReaderPlaces DEF X11Data, X11Handles, Handling
    <3> QED
      BY <1>4, <1>m, <3>1 DEF X11Data, X11Handles
  <2> QED
    BY <1>4, <2>1, <2>2, SameWrite DEF X11Data, X11Handles, Handling, Shape, RestOK
<1>5. CASE X11IncrDrops
  BY <1>5, SameReaders, SameWrite, ReadsOK DEF X11IncrDrops, Shape, RestOK
<1>6. CASE X11IncrDone
  <2>1. ReadersOK'
    <3>1. ReaderOK(Main, Checking(rd[Main].todo))
      BY <1>0, <1>t, ReaderPlaces
    <3> QED
      BY <1>6, <1>m, <3>1 DEF X11IncrDone
  <2> QED
    BY <1>6, <2>1, SameWrite DEF X11IncrDone, Shape, RestOK
<1>r. ASSUME backend \in {"windows", "mac"}, rd' = [rd EXCEPT ![Main].at = "read"], UNCHANGED backend
      PROVE  ReadersOK'
  <2>1. ReaderOK(Main, [at |-> "read", todo |-> rd[Main].todo])
    BY <1>0, <1>t, <1>r, ReaderPlaces
  <2>2. rd' = [rd EXCEPT ![Main] = [at |-> "read", todo |-> rd[Main].todo]]
    BY <1>0, <1>r, AtMoves DEF Shape
  <2> QED
    BY <1>m, <1>r, <2>1, <2>2
<1>7. CASE WindowsUpdate
  <2>1. ReadersOK'
    BY <1>7, <1>r, SameReaders DEF WindowsUpdate, Handling
  <2> QED
    BY <1>7, <2>1, SameWrite, ReadsOK DEF WindowsUpdate, Handling, Shape, RestOK
<1>8. CASE MacTick
  <2>1. ReadersOK'
    BY <1>8, <1>r, SameReaders DEF MacTick
  <2> QED
    BY <1>8, <2>1, SameWrite DEF MacTick, Shape, RestOK
<1>9. CASE ReadClipboard
  <2>1. ReadersOK'
    BY <1>0, <1>9, <1>m, ReadsOK, ReaderPlaces DEF ReadClipboard
  <2> QED
    BY <1>9, <2>1, SameWrite DEF ReadClipboard, Shape, RestOK
<1>10. CASE OpenFails
  <2>1. ReadersOK'
    BY <1>0, <1>10, <1>m, ReaderPlaces DEF OpenFails
  <2> QED
    BY <1>10, <2>1, SameWrite DEF OpenFails, Shape, RestOK
<1>11. CASE WlClipboardTick
  <2>1. ReadersOK'
    BY <1>0, <1>11, <1>m, ReadsOK, ReaderPlaces DEF WlClipboardTick
  <2> QED
    BY <1>11, <2>1, SameWrite DEF WlClipboardTick, Shape, RestOK
<1>12. CASE PushLocalCopy
  <2>1. notes # <<>> /\ notes' \in Seq(Notes) /\ Items(Head(notes)) \in Seq(AnyItem)
    BY <1>12, ReadsOK DEF PushLocalCopy, Handling
  <2>2. ReadersOK'
    BY <1>0, <1>12, <1>m, <2>1, ReaderPlaces DEF PushLocalCopy
  <2> QED
    BY <1>12, <2>1, <2>2, SameWrite DEF PushLocalCopy, Handling, Shape, RestOK
<1> QED
  BY <1>1, <1>2, <1>3, <1>4, <1>5, <1>6, <1>7, <1>8, <1>9, <1>10, <1>11, <1>12

\* Reading, checking and sending keep the shape.
LEMMA ReadShape ==
    ASSUME Shape,
           \/ NullPoll \/ AndroidWatch \/ NullWatch \/ AndroidEnqueue
           \/ \E r \in Readers : WlrSelection(r) \/ WlrRead(r) \/ CheckLoad(r) \/ CheckStore(r)
                                   \/ WlrClosed(r) \/ Send(r)
    PROVE  Shape'
<1> USE DEF os, flow, life, score, count
<1>0. Main \in Readers
  BY MainIsReader
<1>m. ASSUME NEW r \in Readers, NEW v, ReaderOK(r, v), rd' = [rd EXCEPT ![r] = v], UNCHANGED backend
      PROVE  ReadersOK'
  BY <1>m, ReaderMoves DEF Shape
<1>t. \A r \in Readers : rd[r].todo \in Seq(AnyItem)
  BY DEF Shape, ReadersOK
<1>b. \A r \in Readers : rd[r].at # "idle" => backend = "wlr" \/ r = Main
  BY DEF Shape, ReadersOK, ReaderOK, Idle
<1>1. CASE NullPoll
  <2>1. incoming' \in Seq(AnyItem) /\ Len(incoming') <= LocalBuffer
    <3>1. CASE clip.c = polled
      BY <1>1, <3>1 DEF NullPoll, Shape, RestOK
    <3>2. CASE clip.c # polled
      <4>1. clip.c \in Cs /\ clip.by \in Bys /\ clip.kind # "none" /\ backend = "null"
        BY <1>1 DEF NullPoll, Shape, RestOK, Clips
      <4>2. Items(clip)[1] \in AnyItem
        <5>1. Items(clip) = <<Item("bytes", clip.c, clip.by)>>
          BY <4>1 DEF Items
        <5>2. Item("bytes", clip.c, clip.by) \in AnyItem
          BY <4>1 DEF Item, AnyItem
        <5> QED
          BY <5>1, <5>2
      <4>3. /\ incoming \in Seq(AnyItem) /\ Len(incoming) < LocalBuffer
            /\ incoming' = Append(incoming, Items(clip)[1])
        BY <1>1, <3>2 DEF NullPoll, Shape, RestOK
      <4> HIDE DEF Items
      <4> QED
        BY <4>2, <4>3, BuffersFit
    <3> QED
      BY <3>1, <3>2
  <2> QED
    BY <1>1, <2>1, SameReaders, SameWrite DEF NullPoll, Shape, RestOK
<1>q. ASSUME incoming # <<>>
      PROVE  /\ Head(incoming) \in AnyItem /\ Tail(incoming) \in Seq(AnyItem)
             /\ Len(Tail(incoming)) <= LocalBuffer
  BY <1>q, BuffersFit DEF Shape, RestOK
<1>2. CASE AndroidWatch
  <2>1. Queue
    BY <1>2 DEF AndroidWatch
  <2> QED
    BY <1>2, <1>q, <2>1, QueueOK, SameReaders, SameWrite DEF AndroidWatch, Shape, RestOK
<1>3. CASE NullWatch
  <2>1. <<Head(incoming)>> \in Seq(AnyItem)
    BY <1>3, <1>q DEF NullWatch
  <2>2. ReadersOK'
    BY <1>0, <1>3, <1>m, <2>1, ReaderPlaces DEF NullWatch
  <2> QED
    BY <1>3, <1>q, <2>2, SameWrite DEF NullWatch, Shape, RestOK
<1>4. CASE AndroidEnqueue
  <2>1. ReadersOK'
    BY <1>0, <1>4, <1>m, ReaderPlaces DEF AndroidEnqueue
  <2>2. Head(rd[Main].todo) \in AnyItem
    BY <1>0, <1>4, <1>t DEF AndroidEnqueue, Shape, ReadersOK, ReaderOK
  <2>3. incoming' \in Seq(AnyItem) /\ Len(incoming') <= LocalBuffer
    BY <1>4, <2>2, BuffersFit DEF AndroidEnqueue, Shape, RestOK
  <2> QED
    BY <1>4, <2>1, <2>3, SameWrite DEF AndroidEnqueue, Shape, RestOK
<1>5. ASSUME NEW r \in Readers, WlrSelection(r) PROVE Shape'
  <2>1. notes # <<>> /\ notes' \in Seq(Notes) /\ Items(Head(notes)) \in Seq(AnyItem)
    BY <1>5, ReadsOK DEF WlrSelection
  <2>2. ReadersOK'
    <3>1. CASE rd' = rd
      BY <1>5, <3>1, SameReaders DEF WlrSelection
    <3>2. CASE rd' # rd
      <4>1. /\ rd' = [rd EXCEPT ![r] = [at |-> "read", todo |-> Items(Head(notes))]]
            /\ Items(Head(notes)) # <<>> /\ backend = "wlr" /\ UNCHANGED backend
        BY <1>5, <3>2 DEF WlrSelection
      <4>2. ReaderOK(r, [at |-> "read", todo |-> Items(Head(notes))])
        BY <2>1, <4>1, ReaderPlaces
      <4> QED
        BY <1>m, <4>1, <4>2
    <3> QED
      BY <3>1, <3>2
  <2> QED
    BY <1>5, <2>1, <2>2, SameWrite DEF WlrSelection, Shape, RestOK
<1>6. ASSUME NEW r \in Readers, WlrRead(r) PROVE Shape'
  <2> DEFINE part == [Head(rd[r].todo) EXCEPT !.as = "part"]
  <2>1. PICK items \in {rd[r].todo, <<part>>, <<>>} : rd' = [rd EXCEPT ![r] = Checking(items)]
    BY <1>6 DEF WlrRead
  <2>2. rd[r].todo # <<>> /\ rd[r].todo \in Seq(AnyItem)
    BY <1>6, <1>t DEF WlrRead, Shape, ReadersOK, ReaderOK
  <2>3. Head(rd[r].todo) \in AnyItem
    BY <2>2
  <2>4. part \in AnyItem
    BY <2>3 DEF AnyItem
  <2> HIDE DEF part
  <2>5. items \in Seq(AnyItem)
    <3>1. <<part>> \in Seq(AnyItem) /\ <<>> \in Seq(AnyItem)
      BY <2>4
    <3>2. items = rd[r].todo \/ items = <<part>> \/ items = <<>>
      BY <2>1
    <3> QED
      BY <2>2, <3>1, <3>2, Zenon
  <2>6. ReadersOK'
    BY <1>6, <1>m, <2>1, <2>5, ReaderPlaces DEF WlrRead
  <2> QED
    BY <1>6, <2>6, SameWrite DEF WlrRead, Shape, RestOK
<1>7. ASSUME NEW r \in Readers, CheckLoad(r) PROVE Shape'
  <2>1. rd[r].todo # <<>> /\ rd[r].todo \in Seq(AnyItem) /\ (backend = "wlr" \/ r = Main)
    BY <1>7, <1>t, <1>b DEF CheckLoad, Shape, ReadersOK, ReaderOK
  <2>2. Tail(rd[r].todo) \in Seq(AnyItem)
    BY <2>1
  <2>3. /\ ReaderOK(r, Checking(Tail(rd[r].todo)))
        /\ ReaderOK(r, [at |-> "store", todo |-> rd[r].todo])
    BY <2>1, <2>2, ReaderPlaces
  <2>4. ReadersOK'
    <3>1. [rd[r] EXCEPT !.at = "store"] = [at |-> "store", todo |-> rd[r].todo]
      BY AtMoves DEF Shape
    <3>2. CASE Hash(Head(rd[r].todo)) = lastHash
      BY <1>7, <1>m, <2>3, <3>2 DEF CheckLoad
    <3>3. CASE Hash(Head(rd[r].todo)) # lastHash
      BY <1>7, <1>m, <2>3, <3>1, <3>3 DEF CheckLoad
    <3> QED
      BY <3>2, <3>3
  <2> QED
    BY <1>7, <2>4, SameWrite DEF CheckLoad, Shape, RestOK
<1>8. ASSUME NEW r \in Readers, CheckStore(r) PROVE Shape'
  <2>1. rd[r].todo # <<>> /\ rd[r].todo \in Seq(AnyItem) /\ (backend = "wlr" \/ r = Main)
    BY <1>8, <1>t, <1>b DEF CheckStore, Shape, ReadersOK, ReaderOK
  <2>2. ReaderOK(r, [at |-> "send", todo |-> rd[r].todo])
    BY <2>1, ReaderPlaces
  <2>3. ReadersOK'
    BY <1>8, <1>m, <2>2, AtMoves DEF CheckStore, Shape
  <2> QED
    BY <1>8, <2>3, SameWrite DEF CheckStore, Shape, RestOK
<1>9. ASSUME NEW r \in Readers, WlrClosed(r) PROVE Shape'
  <2>1. rd[r].todo # <<>> /\ rd[r].todo \in Seq(AnyItem) /\ backend = "wlr"
    BY <1>9, <1>t DEF WlrClosed, Shape, ReadersOK, ReaderOK
  <2>2. ReaderOK(r, [at |-> "sending", todo |-> rd[r].todo]) /\ ReaderOK(r, Idle)
    BY <2>1, ReaderPlaces
  <2>3. ReadersOK'
    <3>1. [rd[r] EXCEPT !.at = "sending"] = [at |-> "sending", todo |-> rd[r].todo]
      BY AtMoves DEF Shape
    <3> QED
      BY <1>9, <1>m, <2>2, <3>1 DEF WlrClosed
  <2> QED
    BY <1>9, <2>3, SameWrite DEF WlrClosed, Shape, RestOK
<1>10. ASSUME NEW r \in Readers, Send(r) PROVE Shape'
  <2>1. ReaderOK(r, Idle)
    BY <1>10, <1>b, ReaderPlaces DEF Send
  <2>2. ReadersOK'
    BY <1>10, <1>m, <2>1 DEF Send
  <2> QED
    BY <1>10, <2>2, QueueOK, SameWrite DEF Send, Shape, RestOK
<1> QED
  BY <1>1, <1>2, <1>3, <1>4, <1>5, <1>6, <1>7, <1>8, <1>9, <1>10

\* Time and the end keep the shape.
LEMMA EndShape ==
    ASSUME Shape, Expire \/ Cancel \/ End
    PROVE  Shape'
<1> USE DEF os, flow, life, score, count
<1>1. ReadersOK' /\ WriteOK'
  BY SameReaders, SameWrite DEF Expire, Cancel, End, EndWatch, WlrClose
<1>2. CASE Expire
  BY <1>1, <1>2 DEF Expire, Shape, RestOK
<1>3. CASE Cancel
  BY <1>1, <1>3 DEF Cancel, Shape, RestOK
<1>4. CASE EndWatch
  BY <1>1, <1>4 DEF EndWatch, Shape, RestOK
<1>5. CASE WlrClose
  BY <1>1, <1>5 DEF WlrClose, Shape, RestOK
<1> QED
  BY <1>2, <1>3, <1>4, <1>5 DEF End

\* The monitor's side of the update channel touches nothing else.
LEMMA MonitorBeside ==
    ASSUME MonitorStep \/ UNCHANGED vars
    PROVE  UNCHANGED <<backend, clip, notes, dirty, lastHash, barrier, incoming, polled, rd, wr,
                       out, shared, disturbed, ctx, watch>>
BY DEF MonitorStep, TakeUpdate, HandOver, MonitorReturns, Beside, vars, os, flow, life, score, count

\* The monitor keeps the shape.
LEMMA MonitorShape ==
    ASSUME Shape, MonitorStep
    PROVE  Shape'
<1>1. ReadersOK' /\ WriteOK'
  BY MonitorBeside, SameReaders, SameWrite
<1>2. /\ queued \in 0..UpdateBuffer /\ held \in BOOLEAN /\ gone \in BOOLEAN
      /\ UpdateBuffer \in Nat
  BY BuffersFit DEF Shape, RestOK
<1>3. queued' \in 0..UpdateBuffer
  <2>1. queued' = queued \/ (queued > 0 /\ queued' = queued - 1)
    BY DEF MonitorStep, TakeUpdate, HandOver, MonitorReturns
  <2> QED
    BY <1>2, <2>1
<1>4. held' \in BOOLEAN /\ gone' \in BOOLEAN
  BY <1>2, Zenon DEF MonitorStep, TakeUpdate, HandOver, MonitorReturns
<1> QED
  BY <1>1, <1>3, <1>4, MonitorBeside DEF Shape, RestOK

\* Every step of every backend keeps the shape.
LEMMA NextShape == Shape /\ [Next]_vars => Shape'
<1> SUFFICES ASSUME Shape, [Next]_vars PROVE Shape'
  OBVIOUS
<1>1. CASE BackendStep
  BY <1>1, WriteStepShape, NoticeShape, ReadShape, EndShape DEF BackendStep, WatchStep
<1>3. CASE MonitorStep
  BY <1>3, MonitorShape
<1>2. CASE UNCHANGED vars
  BY <1>2, SameReaders, SameWrite DEF vars, os, flow, life, score, count, Shape, RestOK
<1> QED
  BY <1>1, <1>2, <1>3 DEF Next

\* The shape is an invariant.
LEMMA SpecShape == Spec => []Shape
BY InitShape, NextShape, PTL DEF Spec

\* The shape is strong enough for the types.
LEMMA ShapeTypes == Shape => TypeOK
<1> SUFFICES ASSUME Shape PROVE TypeOK
  OBVIOUS
<1>1. \A i \in DOMAIN notes : notes[i].by \in {"user", "node"}
  <2>1. notes \in Seq(Notes)
    BY DEF Shape, RestOK
  <2>2. \A i \in DOMAIN notes : notes[i] \in Notes
    BY <2>1
  <2> QED
    BY <2>2 DEF Notes, Bys
<1>2. \A r \in Readers : rd[r].at \in {"idle", "incr", "read", "load", "store", "send", "sending"}
  BY DEF Shape, ReadersOK, Places
<1>3. clip \in [c : Contents \cup {NoContent}, kind : {"none", "text", "image", "path"}, by : {"user", "node"}]
  BY DEF Shape, RestOK, Clips, Cs, Kinds, Bys
<1> QED
  BY <1>1, <1>2, <1>3 DEF Shape, RestOK, TypeOK

\* The state is well typed, the incoming channel never holds more than its
\* capacity, and the window and the closing flag belong to the backends that
\* have them, whatever the users and the network do (pkg/clipboard).
THEOREM EventfulTypeOK == Spec => []TypeOK
BY SpecShape, ShapeTypes, PTL

-----------------------------------------------------------------------------
(* Loop protection. *)

\* A behaviour is about one backend.
LEMMA SameBackend == BackendStep => UNCHANGED backend
<1> SUFFICES ASSUME BackendStep PROVE UNCHANGED backend
  OBVIOUS
<1>1. CASE \/ \E c \in Contents : UserCopy(c) \/ StartWrite(c)
           \/ WriteMark \/ Suppress \/ MacClear \/ WriteSet \/ WriteFails
  BY <1>1 DEF UserCopy, StartWrite, WriteMark, Suppress, MacClear, WriteSet, WriteFails
<1>2. CASE \/ X11Wait \/ X11Owner \/ X11Targets \/ X11Data \/ X11IncrDrops \/ X11IncrDone
           \/ WindowsUpdate \/ MacTick \/ ReadClipboard \/ OpenFails \/ WlClipboardTick \/ PushLocalCopy
  BY <1>2 DEF X11Wait, X11Owner, X11Targets, X11Data, X11Handles, X11IncrDrops, X11IncrDone, WindowsUpdate,
        MacTick, ReadClipboard, OpenFails, WlClipboardTick, PushLocalCopy
<1>3. CASE NullPoll \/ AndroidWatch \/ NullWatch \/ AndroidEnqueue \/ Expire \/ Cancel
  BY <1>3 DEF NullPoll, AndroidWatch, NullWatch, AndroidEnqueue, Expire, Cancel
<1>4. ASSUME NEW r \in Readers,
             WlrSelection(r) \/ WlrRead(r) \/ CheckLoad(r) \/ CheckStore(r) \/ WlrClosed(r) \/ Send(r)
      PROVE  UNCHANGED backend
  BY <1>4 DEF WlrSelection, WlrRead, CheckLoad, CheckStore, WlrClosed, Send
<1>5. CASE End
  BY <1>5 DEF End, EndWatch, WlrClose
<1> QED
  BY <1>1, <1>2, <1>3, <1>4, <1>5 DEF BackendStep, WriteStep, WatchStep

\* Which steps there are on a backend with one reader.
LEMMA StepsOf ==
    ASSUME Shape, BackendStep, backend # "wlr"
    PROVE  \/ \E c \in Contents : UserCopy(c) \/ StartWrite(c)
           \/ WriteFails \/ CheckLoad(Main) \/ CheckStore(Main) \/ Cancel \/ EndWatch
           \/ backend # "android" /\ Send(Main)
           \/ backend # "null" /\ WriteSet
           \/ backend # "windows" /\ WriteMark
           \/ backend \in {"windows", "mac"} /\ (Suppress \/ Expire \/ ReadClipboard)
           \/ backend = "mac" /\ (MacClear \/ MacTick)
           \/ backend = "windows" /\ (WindowsUpdate \/ OpenFails)
           \/ backend = "x11" /\ (X11Wait \/ X11Owner \/ X11Targets \/ X11Data \/ X11IncrDrops \/ X11IncrDone)
           \/ backend = "wl_clipboard" /\ WlClipboardTick
           \/ backend = "android" /\ (PushLocalCopy \/ AndroidWatch \/ AndroidEnqueue)
           \/ backend = "null" /\ (NullPoll \/ NullWatch)
<1>0. Main \in Readers
  BY MainIsReader
<1>1. \A r \in Readers : r # Main => rd[r].at = "idle"
  BY DEF Shape, ReadersOK, ReaderOK, Idle
<1>2. ASSUME NEW r \in Readers,
             WlrSelection(r) \/ WlrRead(r) \/ CheckLoad(r) \/ CheckStore(r) \/ WlrClosed(r) \/ Send(r)
      PROVE  CheckLoad(Main) \/ CheckStore(Main) \/ (backend # "android" /\ Send(Main))
  BY <1>0, <1>1, <1>2 DEF WlrSelection, WlrRead, WlrClosed, CheckLoad, CheckStore, Send
<1>3. WlrClose => FALSE
  BY DEF WlrClose, Shape, RestOK
<1>4. Expire => backend \in {"windows", "mac"}
  BY DEF Expire, Shape, RestOK
<1>5. backend \in {"x11", "wlr", "wl_clipboard", "windows", "mac", "android", "null"}
  BY BackendsKnown DEF Shape
<1>6. wr # NoWrite => wr.steps \in StepsLeft
  BY DEF Shape, WriteOK
<1>7. /\ Suppress => backend \in {"windows", "mac"}
      /\ MacClear => backend = "mac"
      /\ WriteMark => backend # "windows"
      /\ WriteSet => backend # "null"
  BY <1>5, <1>6 DEF Suppress, MacClear, WriteMark, WriteSet, StepsLeft, MarkSet, SuppressSet, MacSteps
<1>8. ASSUME WriteStep
      PROVE  \/ backend # "null" /\ WriteSet
             \/ backend # "windows" /\ WriteMark
             \/ backend \in {"windows", "mac"} /\ Suppress
             \/ backend = "mac" /\ MacClear
  BY <1>7, <1>8 DEF WriteStep
<1>9. /\ X11Wait \/ X11Owner \/ X11Targets \/ X11Data \/ X11IncrDrops \/ X11IncrDone => backend = "x11"
      /\ WindowsUpdate \/ OpenFails => backend = "windows"
      /\ MacTick => backend = "mac"
      /\ ReadClipboard => backend \in {"windows", "mac"}
      /\ WlClipboardTick => backend = "wl_clipboard"
      /\ PushLocalCopy \/ AndroidWatch \/ AndroidEnqueue => backend = "android"
      /\ NullPoll \/ NullWatch => backend = "null"
  BY DEF X11Wait, X11Owner, X11Targets, X11Data, X11Handles, X11IncrDrops, X11IncrDone, Handling, WindowsUpdate,
        OpenFails, MacTick, ReadClipboard, WlClipboardTick, PushLocalCopy, AndroidWatch, AndroidEnqueue,
        NullPoll, NullWatch
<1>10. CASE WatchStep
  <2>1. CASE \E r \in Readers : WlrSelection(r) \/ WlrRead(r) \/ CheckLoad(r) \/ CheckStore(r)
                                   \/ WlrClosed(r) \/ Send(r)
    BY <1>2, <2>1
  <2>2. CASE \/ X11Wait \/ X11Owner \/ X11Targets \/ X11Data \/ X11IncrDrops
             \/ WindowsUpdate \/ MacTick \/ ReadClipboard \/ WlClipboardTick
             \/ PushLocalCopy \/ NullPoll \/ AndroidWatch \/ NullWatch \/ AndroidEnqueue
    BY <1>9, <2>2
  <2> QED
    BY <1>10, <2>1, <2>2 DEF WatchStep
<1>11. CASE X11IncrDone \/ OpenFails \/ Expire
  BY <1>4, <1>9, <1>11
<1>12. CASE WriteStep
  BY <1>8, <1>12
<1>13. CASE End
  BY <1>3, <1>13 DEF End
<1> QED
  BY <1>10, <1>11, <1>12, <1>13 DEF BackendStep

\* What a step does to the reader of such a backend.
LEMMA MainDoes ==
    ASSUME Shape
    PROVE  /\ CheckLoad(Main) =>
                /\ rd[Main].at = "load" /\ rd[Main].todo \in Seq(AnyItem) /\ rd[Main].todo # <<>>
                /\ rd'[Main] = IF Hash(Head(rd[Main].todo)) = lastHash THEN Checking(Tail(rd[Main].todo))
                               ELSE [at |-> "store", todo |-> rd[Main].todo]
           /\ CheckStore(Main) =>
                /\ rd[Main].at = "store" /\ rd[Main].todo \in Seq(AnyItem) /\ rd[Main].todo # <<>>
                /\ rd'[Main] = [at |-> "send", todo |-> rd[Main].todo]
           /\ Send(Main) /\ backend # "wlr" =>
                /\ rd[Main].at = "send" /\ rd[Main].todo \in Seq(AnyItem) /\ rd[Main].todo # <<>>
                /\ rd'[Main] = Idle
           /\ AndroidEnqueue =>
                /\ rd[Main].at = "send" /\ rd[Main].todo \in Seq(AnyItem) /\ rd[Main].todo # <<>>
                /\ rd'[Main] = Idle
           /\ X11IncrDone => rd[Main].at = "incr" /\ rd'[Main] = Checking(rd[Main].todo)
           /\ X11Data => rd'[Main] = IF Head(notes).c \in Big THEN [at |-> "incr", todo |-> Items(Head(notes))]
                                     ELSE Checking(Items(Head(notes)))
           /\ PushLocalCopy => rd'[Main] = Checking(Items(Head(notes)))
           /\ NullWatch => rd'[Main] = Checking(<<Head(incoming)>>)
           /\ ReadClipboard => rd[Main].at = "read" /\ rd'[Main] = Checking(Items(clip))
           /\ WlClipboardTick => rd'[Main] = Checking(Items(clip))
           /\ OpenFails => rd[Main].at = "read" /\ rd'[Main] = Idle
           /\ WindowsUpdate \/ MacTick =>
                /\ rd[Main] = Idle
                /\ rd'[Main] = IF barrier THEN Idle ELSE [at |-> "read", todo |-> <<>>]
<1>0. Main \in Readers /\ DOMAIN rd = Readers /\ rd[Main].todo \in Seq(AnyItem) /\ ReaderOK(Main, rd[Main])
  BY MainIsReader DEF Shape, ReadersOK
<1>1. \A p : /\ [rd EXCEPT ![Main].at = p] = [rd EXCEPT ![Main] = [at |-> p, todo |-> rd[Main].todo]]
             /\ [rd[Main] EXCEPT !.at = p] = [at |-> p, todo |-> rd[Main].todo]
  BY <1>0, AtMoves DEF Shape
<1>2. \A v : rd' = [rd EXCEPT ![Main] = v] => rd'[Main] = v
  BY <1>0
<1>3. \A p : rd' = [rd EXCEPT ![Main].at = p] => rd'[Main] = [at |-> p, todo |-> rd[Main].todo]
  BY <1>0, <1>1
<1>4. rd[Main].at \in {"load", "store", "send"} => rd[Main].todo # <<>>
  BY <1>0 DEF ReaderOK
<1>5. Idle.todo = <<>> /\ Idle.at = "idle"
  BY DEF Idle
<1>6. ASSUME CheckLoad(Main)
      PROVE  /\ rd[Main].at = "load" /\ rd[Main].todo # <<>>
             /\ rd'[Main] = IF Hash(Head(rd[Main].todo)) = lastHash THEN Checking(Tail(rd[Main].todo))
                            ELSE [at |-> "store", todo |-> rd[Main].todo]
  <2>1. rd[Main].at = "load" /\ rd[Main].todo # <<>>
    BY <1>4, <1>6 DEF CheckLoad
  <2>2. rd' = [rd EXCEPT ![Main] = IF Hash(Head(rd[Main].todo)) = lastHash THEN Checking(Tail(rd[Main].todo))
                                   ELSE [rd[Main] EXCEPT !.at = "store"]]
    BY <1>6, Zenon DEF CheckLoad
  <2>3. rd'[Main] = IF Hash(Head(rd[Main].todo)) = lastHash THEN Checking(Tail(rd[Main].todo))
                    ELSE [rd[Main] EXCEPT !.at = "store"]
    BY <1>2, <2>2
  <2>4. [rd[Main] EXCEPT !.at = "store"] = [at |-> "store", todo |-> rd[Main].todo]
    BY <1>1
  <2> QED
    BY <2>1, <2>3, <2>4, Zenon
<1>7. ASSUME CheckStore(Main)
      PROVE  rd[Main].at = "store" /\ rd'[Main] = [at |-> "send", todo |-> rd[Main].todo]
  BY <1>3, <1>7 DEF CheckStore
<1>8. ASSUME Send(Main), backend # "wlr" PROVE rd[Main].at = "send" /\ rd'[Main] = Idle
  BY <1>2, <1>8 DEF Send
<1>9. ASSUME AndroidEnqueue PROVE rd[Main].at = "send" /\ rd'[Main] = Idle
  BY <1>2, <1>9 DEF AndroidEnqueue
<1>10. ASSUME X11IncrDone PROVE rd[Main].at = "incr" /\ rd'[Main] = Checking(rd[Main].todo)
  BY <1>2, <1>10 DEF X11IncrDone
<1>11. ASSUME X11Data
       PROVE  rd'[Main] = IF Head(notes).c \in Big THEN [at |-> "incr", todo |-> Items(Head(notes))]
                          ELSE Checking(Items(Head(notes)))
  BY <1>2, <1>11, Zenon DEF X11Data
<1>12. /\ PushLocalCopy => rd'[Main] = Checking(Items(Head(notes)))
       /\ NullWatch => rd'[Main] = Checking(<<Head(incoming)>>)
  BY <1>2 DEF PushLocalCopy, NullWatch
<1>13. /\ ReadClipboard => rd[Main].at = "read" /\ rd'[Main] = Checking(Items(clip))
       /\ WlClipboardTick => rd'[Main] = Checking(Items(clip))
       /\ OpenFails => rd[Main].at = "read" /\ rd'[Main] = Idle
  BY <1>2 DEF ReadClipboard, WlClipboardTick, OpenFails
<1>14. ASSUME WindowsUpdate \/ MacTick
       PROVE  /\ rd[Main] = Idle
              /\ rd'[Main] = IF barrier THEN Idle ELSE [at |-> "read", todo |-> <<>>]
  BY <1>3, <1>5, <1>14 DEF WindowsUpdate, MacTick, Handling, Free
<1> QED
  BY <1>0, <1>4, <1>6, <1>7, <1>8, <1>9, <1>10, <1>11, <1>12, <1>13, <1>14

\* Everything a reader has is the clipboard's content, by whom it was put there.
About(q) == \A i \in DOMAIN q : q[i].c = clip.c /\ q[i].by = clip.by

\* While nothing disturbs it, a change is one event, one read or one item on its
\* way to Watch, never two of them, and none while a Write is in progress.
OneAtATime ==
    /\ wr # NoWrite => notes = <<>> /\ rd[Main] = Idle /\ incoming = <<>>
    /\ notes # <<>> =>
          /\ rd[Main] = Idle /\ incoming = <<>> /\ Tail(notes) = <<>>
          /\ Head(notes).c = clip.c /\ Head(notes).by = clip.by
          /\ Head(notes).kind = clip.kind /\ clip.kind # "none"
    /\ incoming # <<>> =>
          /\ rd[Main] = Idle /\ Tail(incoming) = <<>>
          /\ Head(incoming).c = clip.c /\ Head(incoming).by = clip.by
    /\ About(rd[Main].todo)

\* x11 does not read what its own window owns.
X11Orderly ==
    clip.by = "node" => rd[Main] = Idle /\ (notes # <<>> => Head(notes).ev = "owner")

\* The window is open from before the set until its event has come.
WindowsOrderly ==
    /\ wr # NoWrite /\ wr.steps = <<"set">> => barrier
    /\ clip.by = "node" => rd[Main] = Idle /\ (notes # <<>> => barrier)

\* What mac hashes: the files of a list, or the bytes of anything else.
MacAs == IF clip.kind = "path" THEN {"list", "name"} ELSE {"bytes"}

\* The window keeps mac from reading what it has not marked yet.
MacOrderly ==
    /\ wr # NoWrite => barrier \/ (~dirty /\ wr.steps = <<"suppress", "clear", "set", "mark">>)
    /\ wr # NoWrite /\ wr.steps = <<"mark">> => clip.c = wr.c
    /\ wr = NoWrite /\ clip.by = "node" /\ clip.kind # "path" => lastHash = <<"bytes", clip.c>>
    /\ \A i \in DOMAIN rd[Main].todo : rd[Main].todo[i].as \in MacAs
    /\ rd[Main].at \in {"store", "send"} /\ clip.by = "node" => Head(rd[Main].todo).as # "bytes"

\* What android wrote is marked before it is there to be read.
AndroidOrderly ==
    /\ wr # NoWrite /\ wr.steps = <<"set">> => lastHash = <<"bytes", wr.c>>
    /\ wr = NoWrite /\ clip.by = "node" =>
          lastHash = <<"bytes", clip.c>> /\ rd[Main].at \in {"idle", "load"} /\ incoming = <<>>
    /\ \A i \in DOMAIN rd[Main].todo : rd[Main].todo[i].as = "bytes"

\* wlr: the window is open while an event of its own is on its way, so that its
\* readers have read what users put there.
WlrOrderly ==
    /\ wr # NoWrite /\ wr.steps = <<"set">> => barrier
    /\ \A i \in DOMAIN notes : notes[i].by = "node" => barrier
    /\ \A r \in Readers : \A i \in DOMAIN rd[r].todo : rd[r].todo[i].by = "user"

\* null never sets the clipboard.
NullOrderly ==
    /\ clip.by = "user"
    /\ \A i \in DOMAIN rd[Main].todo : rd[Main].todo[i].by = "user"
    /\ \A i \in DOMAIN incoming : incoming[i].by = "user"

Orderly ==
    /\ backend = "wlr" => WlrOrderly
    /\ backend = "null" => NullOrderly
    /\ ~disturbed =>
          /\ backend \in {"x11", "windows", "mac", "android"} => OneAtATime
          /\ backend = "x11" => X11Orderly
          /\ backend = "windows" => WindowsOrderly
          /\ backend = "mac" => MacOrderly
          /\ backend = "android" => AndroidOrderly

LoopInv == Shape /\ Orderly /\ LoopProtected

\* Undisturbed, copies and writes begin when everything has settled.
LEMMA Undisturbed ==
    ASSUME Shape, BackendStep, ~disturbed'
    PROVE  /\ ~disturbed /\ ~WriteFails
           /\ (\E c \in Contents : UserCopy(c) \/ StartWrite(c)) =>
                 /\ notes = <<>> /\ ~dirty /\ ~barrier /\ incoming = <<>> /\ wr = NoWrite
                 /\ rd[Main] = Idle
<1> USE DEF os, flow, life, score, count
<1>0. Main \in Readers
  BY MainIsReader
<1>1. (\E c \in Contents : UserCopy(c) \/ StartWrite(c)) => Quiet /\ ~disturbed
  BY DEF UserCopy, StartWrite
<1>2. ~WriteFails
  BY DEF WriteFails
<1>3. WriteStep \/ Expire \/ Cancel \/ End => UNCHANGED disturbed
  BY DEF WriteStep, WriteMark, Suppress, MacClear, WriteSet, Expire, Cancel, End, EndWatch, WlrClose
<1>4. (\/ X11Wait \/ X11Owner \/ X11Targets \/ X11Data \/ X11IncrDrops \/ X11IncrDone
       \/ WindowsUpdate \/ MacTick \/ ReadClipboard \/ OpenFails \/ WlClipboardTick \/ PushLocalCopy)
      => UNCHANGED disturbed
  BY DEF X11Wait, X11Owner, X11Targets, X11Data, X11Handles, X11IncrDrops, X11IncrDone, WindowsUpdate,
        MacTick, ReadClipboard, OpenFails, WlClipboardTick, PushLocalCopy
<1>5. NullPoll \/ AndroidWatch \/ NullWatch \/ AndroidEnqueue => UNCHANGED disturbed
  BY DEF NullPoll, AndroidWatch, NullWatch, AndroidEnqueue
<1>6. ASSUME NEW r \in Readers,
             WlrSelection(r) \/ WlrRead(r) \/ CheckLoad(r) \/ CheckStore(r) \/ WlrClosed(r) \/ Send(r)
      PROVE  UNCHANGED disturbed
  BY <1>6 DEF WlrSelection, WlrRead, CheckLoad, CheckStore, WlrClosed, Send
<1>7. ~disturbed
  BY <1>1, <1>2, <1>3, <1>4, <1>5, <1>6 DEF BackendStep, WatchStep
<1> QED
  BY <1>0, <1>1, <1>2, <1>7 DEF Quiet

\* What is read from the clipboard, or from an event about it, is about it.
LEMMA AboutClip ==
    ASSUME Shape
    PROVE  /\ About(<<>>) /\ About(Items(clip))
           /\ \A q \in Seq(AnyItem) : q # <<>> /\ About(q) =>
                 /\ About(Tail(q)) /\ Tail(q) \in Seq(AnyItem)
                 /\ Head(q).c = clip.c /\ Head(q).by = clip.by
           /\ notes # <<>> /\ Head(notes).c = clip.c /\ Head(notes).by = clip.by =>
                 About(Items(Head(notes)))
<1>1. About(<<>>)
  BY DEF About
<1>2. ASSUME NEW q \in Seq(AnyItem), q # <<>>, About(q)
      PROVE  /\ About(Tail(q)) /\ Tail(q) \in Seq(AnyItem)
             /\ Head(q).c = clip.c /\ Head(q).by = clip.by
  <2>1. /\ Tail(q) \in Seq(AnyItem) /\ Head(q) = q[1] /\ 1 \in DOMAIN q
        /\ \A i \in DOMAIN Tail(q) : i + 1 \in DOMAIN q /\ Tail(q)[i] = q[i + 1]
    BY <1>2
  <2> QED
    BY <1>2, <2>1 DEF About
<1>3. About(Items(clip))
  BY ReadsOK DEF About
<1>4. notes # <<>> /\ Head(notes).c = clip.c /\ Head(notes).by = clip.by => About(Items(Head(notes)))
  BY ReadsOK DEF About
<1> QED
  BY <1>1, <1>2, <1>3, <1>4

\* One event after a change of a settled clipboard.
LEMMA OneNote ==
    ASSUME Shape, UNCHANGED backend, NEW c \in Contents, NEW by \in Bys, notes = <<>>,
           NEW kind \in {"text", "image", "path"}, Changed(c, kind, by)
    PROVE  /\ clip' = [c |-> c, kind |-> kind, by |-> by]
           /\ notes' # <<>> => /\ Tail(notes') = <<>> /\ Head(notes').c = clip'.c
                               /\ Head(notes').by = clip'.by /\ Head(notes').kind = clip'.kind
                               /\ Head(notes').ev = "owner" /\ clip'.kind # "none"
<1>1. /\ clip' = [c |-> c, kind |-> kind, by |-> by] /\ clip'.kind # "none"
      /\ backend \in {"wl_clipboard", "mac", "null"} => notes' = notes
      /\ backend \in {"x11", "wlr", "windows", "android"} =>
            notes' = Append(notes, [ev |-> "owner", c |-> c, kind |-> kind, by |-> by])
  BY ChangedOK
<1>2. backend \in {"x11", "wlr", "wl_clipboard", "windows", "mac", "android", "null"}
  BY BackendsKnown DEF Shape
<1>3. ASSUME NEW n PROVE Append(<<>>, n) = <<n>> /\ Head(<<n>>) = n /\ Tail(<<n>>) = <<>>
  OBVIOUS
<1>4. CASE backend \in {"x11", "wlr", "windows", "android"}
  <2>1. notes' = <<[ev |-> "owner", c |-> c, kind |-> kind, by |-> by]>>
    BY <1>1, <1>3, <1>4
  <2>2. Tail(notes') = <<>> /\ Head(notes') = [ev |-> "owner", c |-> c, kind |-> kind, by |-> by]
    BY <1>3, <2>1
  <2> QED
    BY <1>1, <2>2
<1> QED
  BY <1>1, <1>2, <1>4

\* OneAtATime is kept by the backends that rely on it.
LEMMA OneStays ==
    ASSUME Shape, Orderly, BackendStep, ~disturbed', backend \in {"x11", "windows", "mac", "android"}
    PROVE  OneAtATime'
<1> USE DEF os, flow, life, score, count
<1>0. Main \in Readers /\ ~disturbed /\ OneAtATime /\ (backend = "mac" => MacOrderly)
  BY MainIsReader, Undisturbed DEF Orderly
<1>i. Idle.todo = <<>> /\ Idle.at = "idle"
  BY DEF Idle
<1>a. ASSUME NEW q, UNCHANGED clip, rd'[Main].todo = q, About(q)
      PROVE  About(rd[Main].todo)'
  BY <1>a DEF About
<1>b. ASSUME UNCHANGED <<clip, wr>>, notes' = <<>>, incoming' = <<>>, wr = NoWrite,
             NEW q, rd'[Main].todo = q, About(q)
      PROVE  OneAtATime'
  <2>1. About(rd[Main].todo)'
    BY <1>a, <1>b
  <2> QED
    BY <1>b, <2>1 DEF OneAtATime
<1>c. ASSUME NEW q \in Seq(AnyItem) PROVE Checking(q).todo = q
  BY <1>c, CheckingOK
<1>1. CASE \E c \in Contents : UserCopy(c) \/ StartWrite(c)
  <2>0. /\ notes = <<>> /\ ~dirty /\ ~barrier /\ incoming = <<>> /\ wr = NoWrite
        /\ rd[Main] = Idle
    BY <1>1, Undisturbed
  <2>1. ASSUME NEW c \in Contents, UserCopy(c) PROVE OneAtATime'
    <3>1. Changed(c, KindOf(c), "user") /\ UNCHANGED <<backend, rd, incoming, wr>>
      BY <2>1 DEF UserCopy
    <3>2. KindOf(c) \in {"text", "image", "path"} /\ "user" \in Bys
      BY KindOfOK DEF Bys
    <3>3. notes' # <<>> => /\ Tail(notes') = <<>> /\ Head(notes').c = clip'.c
                           /\ Head(notes').by = clip'.by /\ Head(notes').kind = clip'.kind
                           /\ clip'.kind # "none"
      BY <2>0, <3>1, <3>2, OneNote
    <3>4. About(rd[Main].todo)'
      BY <1>i, <2>0, <3>1 DEF About
    <3> QED
      BY <2>0, <3>1, <3>3, <3>4 DEF OneAtATime
  <2>2. ASSUME NEW c \in Contents, StartWrite(c) PROVE OneAtATime'
    <3>1. About(rd[Main].todo)'
      BY <1>i, <2>0, <2>2 DEF About, StartWrite
    <3> QED
      BY <2>0, <2>2, <3>1 DEF OneAtATime, StartWrite
  <2> QED
    BY <1>1, <2>1, <2>2
<1>2. CASE WriteSet
  <2>0. wr # NoWrite /\ notes = <<>> /\ rd[Main] = Idle /\ incoming = <<>> /\ wr.c \in Contents
    BY <1>0, <1>2 DEF OneAtATime, WriteSet, Shape, WriteOK
  <2>1. UNCHANGED <<backend, rd, incoming>> /\ wr' \in {NoWrite, [c |-> wr.c, steps |-> Tail(wr.steps)]}
    BY <1>2 DEF WriteSet, Written
  <2>2. About(rd[Main].todo)'
    BY <1>i, <2>0, <2>1 DEF About
  <2>3. CASE backend = "mac"
    BY <1>2, <2>0, <2>1, <2>2, <2>3 DEF WriteSet, OneAtATime
  <2>4. CASE backend # "mac"
    <3>1. Changed(wr.c, KindWritten(wr.c), "node") /\ KindWritten(wr.c) \in {"text", "image", "path"}
             /\ "node" \in Bys
      BY <1>2, <2>4, KindOfOK DEF WriteSet, Bys
    <3>2. notes' # <<>> => /\ Tail(notes') = <<>> /\ Head(notes').c = clip'.c
                           /\ Head(notes').by = clip'.by /\ Head(notes').kind = clip'.kind
                           /\ clip'.kind # "none"
      BY <2>0, <2>1, <3>1, OneNote
    <3>3. wr' = NoWrite
      BY <1>0, <1>2, <2>0, <2>4, WrittenOK DEF WriteSet, Shape, WriteOK
    <3> QED
      BY <2>0, <2>1, <2>2, <3>2, <3>3 DEF OneAtATime
  <2> QED
    BY <2>3, <2>4
<1>3. CASE WriteMark \/ Suppress \/ Expire \/ Cancel \/ EndWatch \/ X11Wait
  <2>1. wr' # NoWrite => wr # NoWrite
    BY <1>3 DEF WriteMark, Suppress, Expire, Cancel, EndWatch, X11Wait
  <2>2. UNCHANGED <<clip, notes, incoming, rd>>
    BY <1>3 DEF WriteMark, Suppress, Expire, Cancel, EndWatch, X11Wait
  <2> QED
    BY <1>0, <2>1, <2>2 DEF OneAtATime, About
<1>4. CASE MacClear
  <2>1. About(rd[Main].todo)'
    BY <1>0, <1>4, <1>i DEF MacClear, OneAtATime, About
  <2> QED
    BY <1>0, <1>4, <2>1 DEF MacClear, OneAtATime
<1>5. CASE CheckLoad(Main)
  <2>1. /\ rd[Main].at = "load" /\ rd[Main].todo \in Seq(AnyItem) /\ rd[Main].todo # <<>>
        /\ rd'[Main] = IF Hash(Head(rd[Main].todo)) = lastHash THEN Checking(Tail(rd[Main].todo))
                               ELSE [at |-> "store", todo |-> rd[Main].todo]
    BY <1>5, MainDoes
  <2>2. wr = NoWrite /\ notes = <<>> /\ incoming = <<>> /\ UNCHANGED <<clip, wr, notes, incoming>>
    BY <1>0, <1>5, <1>i, <2>1 DEF OneAtATime, CheckLoad
  <2>3. About(rd[Main].todo) /\ About(Tail(rd[Main].todo)) /\ Tail(rd[Main].todo) \in Seq(AnyItem)
    BY <1>0, <2>1, AboutClip DEF OneAtATime
  <2>4. rd'[Main].todo = rd[Main].todo \/ rd'[Main].todo = Tail(rd[Main].todo)
    <3>1. Checking(Tail(rd[Main].todo)).todo = Tail(rd[Main].todo)
      BY <1>c, <2>3
    <3> QED
      BY <2>1, <3>1
  <2> QED
    BY <1>b, <2>2, <2>3, <2>4
<1>6. CASE CheckStore(Main)
  <2>1. rd[Main].at = "store" /\ rd'[Main].todo = rd[Main].todo
    BY <1>6, MainDoes
  <2>2. wr = NoWrite /\ notes = <<>> /\ incoming = <<>> /\ UNCHANGED <<clip, wr, notes, incoming>>
    BY <1>0, <1>6, <1>i, <2>1 DEF OneAtATime, CheckStore
  <2> QED
    BY <1>0, <1>b, <2>1, <2>2 DEF OneAtATime
<1>7. CASE Send(Main) /\ backend # "android"
  <2>1. rd[Main].at = "send" /\ rd'[Main].todo = <<>>
    BY <1>7, <1>i, MainDoes
  <2>2. wr = NoWrite /\ notes = <<>> /\ incoming = <<>> /\ UNCHANGED <<clip, wr, notes, incoming>>
    BY <1>0, <1>7, <1>i, <2>1 DEF OneAtATime, Send
  <2> QED
    BY <1>b, <2>1, <2>2, AboutClip
<1>8. CASE ReadClipboard
  <2>1. rd[Main].at = "read" /\ rd'[Main].todo = Items(clip)
    BY <1>8, <1>c, MainDoes, ReadsOK
  <2>2. wr = NoWrite /\ notes = <<>> /\ incoming = <<>> /\ UNCHANGED <<clip, wr, notes, incoming>>
    BY <1>0, <1>8, <1>i, <2>1 DEF OneAtATime, ReadClipboard
  <2> QED
    BY <1>b, <2>1, <2>2, AboutClip
<1>9. CASE MacTick
  <2>1. rd[Main] = Idle /\ rd'[Main] = IF barrier THEN Idle ELSE [at |-> "read", todo |-> <<>>]
    BY <1>9, MainDoes
  <2>2. UNCHANGED <<clip, wr, notes, incoming>> /\ rd'[Main].todo = <<>>
    BY <1>9, <1>i, <2>1 DEF MacTick
  <2>3. wr # NoWrite => rd'[Main] = Idle
    BY <1>0, <1>9, <2>1 DEF MacTick, MacOrderly
  <2>4. notes = <<>> /\ incoming = <<>>
    BY <1>9 DEF MacTick, Shape, RestOK
  <2>5. About(rd[Main].todo)'
    BY <2>2 DEF About
  <2> QED
    BY <2>2, <2>3, <2>4, <2>5 DEF OneAtATime
<1>10. CASE WindowsUpdate
  <2>1. rd'[Main].todo = <<>> /\ notes # <<>>
    BY <1>10, <1>i, MainDoes DEF WindowsUpdate, Handling
  <2>2. wr = NoWrite /\ notes' = <<>> /\ incoming' = <<>> /\ UNCHANGED <<clip, wr>>
    BY <1>0, <1>10, <2>1 DEF OneAtATime, WindowsUpdate
  <2> QED
    BY <1>b, <2>1, <2>2, AboutClip
<1>11. CASE OpenFails
  <2>1. rd[Main].at = "read" /\ rd'[Main].todo = <<>>
    BY <1>11, <1>i, MainDoes
  <2>2. wr = NoWrite /\ notes = <<>> /\ incoming = <<>> /\ UNCHANGED <<clip, wr, notes, incoming>>
    BY <1>0, <1>11, <1>i, <2>1 DEF OneAtATime, OpenFails
  <2> QED
    BY <1>b, <2>1, <2>2, AboutClip
<1>12. CASE X11Owner \/ X11Targets
  <2>1. /\ notes # <<>> /\ rd[Main] = Idle /\ wr = NoWrite /\ incoming = <<>> /\ Tail(notes) = <<>>
        /\ UNCHANGED <<clip, wr, incoming, rd>> /\ clip.kind # "none"
    BY <1>0, <1>12 DEF X11Owner, X11Targets, X11Handles, Handling, OneAtATime
  <2>2. PICK ev \in {"targets", "data"} : notes' = <<>> \o Ask(ev) \/ notes' = <<>> \o <<>>
    BY <1>12, <2>1 DEF X11Owner, X11Targets
  <2>3. ASSUME NEW n PROVE <<>> \o <<n>> = <<n>> /\ Head(<<n>>) = n /\ Tail(<<n>>) = <<>>
    OBVIOUS
  <2>4. notes' = <<[ev |-> ev, c |-> clip.c, kind |-> clip.kind, by |-> clip.by]>> \/ notes' = <<>>
    BY <2>1, <2>2, <2>3 DEF Ask
  <2>5. notes' # <<>> => /\ Tail(notes') = <<>>
                         /\ Head(notes') = [ev |-> ev, c |-> clip.c, kind |-> clip.kind, by |-> clip.by]
    BY <2>3, <2>4
  <2>6. About(rd[Main].todo)'
    BY <1>0, <2>1 DEF OneAtATime, About
  <2> QED
    BY <2>1, <2>5, <2>6 DEF OneAtATime
<1>13. CASE X11Data \/ PushLocalCopy
  <2>1. /\ notes # <<>> /\ rd[Main] = Idle /\ wr = NoWrite /\ incoming = <<>> /\ Tail(notes) = <<>>
        /\ Head(notes).c = clip.c /\ Head(notes).by = clip.by
        /\ UNCHANGED <<clip, wr, incoming>> /\ notes' = <<>>
    BY <1>0, <1>13 DEF X11Data, PushLocalCopy, X11Handles, Handling, OneAtATime
  <2>2. rd'[Main].todo = Items(Head(notes)) /\ About(Items(Head(notes)))
    BY <1>13, <1>c, <2>1, MainDoes, ReadsOK, AboutClip
  <2> QED
    BY <1>b, <2>1, <2>2
<1>14. CASE X11IncrDrops
  BY <1>0, <1>14, <1>i DEF X11IncrDrops, OneAtATime
<1>15. CASE X11IncrDone
  <2>1. rd[Main].at = "incr" /\ rd'[Main].todo = rd[Main].todo
    BY <1>0, <1>15, <1>c, MainDoes DEF Shape, ReadersOK
  <2>2. wr = NoWrite /\ notes = <<>> /\ incoming = <<>> /\ UNCHANGED <<clip, wr, notes, incoming>>
    BY <1>0, <1>15, <1>i, <2>1 DEF OneAtATime, X11IncrDone
  <2> QED
    BY <1>0, <1>b, <2>1, <2>2 DEF OneAtATime
<1>16. CASE AndroidWatch
  <2>1. incoming # <<>> /\ incoming' = <<>> /\ UNCHANGED <<clip, wr, notes, rd>>
    BY <1>0, <1>16 DEF AndroidWatch, OneAtATime
  <2> QED
    BY <1>0, <2>1 DEF OneAtATime, About
<1>17. CASE AndroidEnqueue
  <2>1. /\ rd[Main].at = "send" /\ rd[Main].todo \in Seq(AnyItem) /\ rd[Main].todo # <<>>
        /\ rd'[Main] = Idle
    BY <1>17, MainDoes
  <2>2. wr = NoWrite /\ notes = <<>> /\ incoming = <<>> /\ UNCHANGED <<clip, wr, notes>>
    BY <1>0, <1>17, <1>i, <2>1 DEF OneAtATime, AndroidEnqueue
  <2>3. Head(rd[Main].todo).c = clip.c /\ Head(rd[Main].todo).by = clip.by
    BY <1>0, <2>1, AboutClip DEF OneAtATime
  <2>4. incoming' = <<Head(rd[Main].todo)>> \/ incoming' = <<>>
    BY <1>17, <2>2 DEF AndroidEnqueue
  <2>5. incoming' # <<>> => Tail(incoming') = <<>> /\ Head(incoming') = Head(rd[Main].todo)
    <3>1. ASSUME NEW x PROVE Tail(<<x>>) = <<>> /\ Head(<<x>>) = x
      OBVIOUS
    <3> QED
      BY <2>4, <3>1, Zenon
  <2>6. About(rd[Main].todo)'
    BY <1>i, <2>1 DEF About
  <2> QED
    BY <2>1, <2>2, <2>3, <2>5, <2>6 DEF OneAtATime
<1> QED
  BY <1>1, <1>2, <1>3, <1>4, <1>5, <1>6, <1>7, <1>8, <1>9, <1>10, <1>11, <1>12, <1>13, <1>14, <1>15,
     <1>16, <1>17, StepsOf, Undisturbed

\* x11: events of the node itself never come to be read.
LEMMA X11Stays ==
    ASSUME Shape, Orderly, BackendStep, ~disturbed', backend = "x11"
    PROVE  X11Orderly'
<1> USE DEF os, flow, life, score, count
<1>0. ~disturbed /\ OneAtATime /\ X11Orderly /\ Main \in Readers /\ Idle.at = "idle"
  BY MainIsReader, Undisturbed DEF Orderly, Idle
<1>1. CASE \E c \in Contents : UserCopy(c) \/ StartWrite(c)
  <2>1. rd[Main] = Idle /\ notes = <<>>
    BY <1>1, Undisturbed
  <2>2. ASSUME NEW c \in Contents, UserCopy(c) PROVE clip'.by = "user"
    BY <2>2 DEF UserCopy, Changed
  <2>3. ASSUME NEW c \in Contents, StartWrite(c) PROVE UNCHANGED <<clip, rd, notes>>
    BY <2>3 DEF StartWrite
  <2> QED
    BY <1>1, <2>1, <2>2, <2>3 DEF X11Orderly
<1>2. CASE WriteSet
  <2>1. wr # NoWrite /\ wr.c \in Contents /\ notes = <<>> /\ rd[Main] = Idle
    BY <1>0, <1>2 DEF WriteSet, OneAtATime, Shape, WriteOK
  <2>2. /\ UNCHANGED <<backend, rd>> /\ Changed(wr.c, KindWritten(wr.c), "node")
        /\ KindWritten(wr.c) \in {"text", "image", "path"} /\ "node" \in Bys
    BY <1>2, KindOfOK DEF WriteSet, Bys
  <2>3. notes' # <<>> => Head(notes').ev = "owner"
    BY <2>1, <2>2, OneNote
  <2> QED
    BY <2>1, <2>2, <2>3 DEF X11Orderly
<1>3. CASE WriteMark \/ Cancel \/ EndWatch \/ X11Wait
  BY <1>0, <1>3 DEF X11Orderly, WriteMark, Cancel, EndWatch, X11Wait
<1>4. CASE CheckLoad(Main) \/ CheckStore(Main) \/ Send(Main) \/ X11IncrDrops \/ X11IncrDone
  <2>1. rd[Main].at # "idle" /\ UNCHANGED clip
    BY <1>4 DEF CheckLoad, CheckStore, Send, X11IncrDrops, X11IncrDone
  <2> QED
    BY <1>0, <2>1 DEF X11Orderly
<1>5. CASE X11Owner
  <2>1. /\ notes # <<>> /\ Head(notes).by = clip.by /\ Tail(notes) = <<>> /\ rd[Main] = Idle
        /\ UNCHANGED <<clip, rd>>
    BY <1>0, <1>5 DEF X11Owner, X11Handles, Handling, OneAtATime
  <2>2. clip.by = "node" => notes' = <<>>
    BY <1>5, <2>1 DEF X11Owner
  <2> QED
    BY <2>1, <2>2 DEF X11Orderly
<1>6. CASE X11Targets \/ X11Data
  <2>1. notes # <<>> /\ Head(notes).ev # "owner" /\ UNCHANGED clip
    BY <1>6 DEF X11Targets, X11Data, X11Handles, Handling
  <2> QED
    BY <1>0, <2>1 DEF X11Orderly
<1> QED
  BY <1>1, <1>2, <1>3, <1>4, <1>5, <1>6, StepsOf, Undisturbed

\* windows: what Write caused is met while the window is open.
LEMMA WindowsStays ==
    ASSUME Shape, Orderly, BackendStep, ~disturbed', backend = "windows"
    PROVE  WindowsOrderly'
<1> USE DEF os, flow, life, score, count
<1>0. ~disturbed /\ OneAtATime /\ WindowsOrderly /\ Main \in Readers /\ Idle.at = "idle"
  BY MainIsReader, Undisturbed DEF Orderly, Idle
<1>w. wr # NoWrite => wr.c \in Contents /\ wr.steps \in {<<"suppress", "set">>, <<"set">>}
  BY DEF Shape, WriteOK, StepsLeft, SuppressSet
<1>1. CASE \E c \in Contents : UserCopy(c) \/ StartWrite(c)
  <2>1. rd[Main] = Idle /\ notes = <<>> /\ wr = NoWrite
    BY <1>1, Undisturbed
  <2>2. ASSUME NEW c \in Contents, UserCopy(c) PROVE clip'.by = "user" /\ UNCHANGED wr
    BY <2>2 DEF UserCopy, Changed
  <2>3. ASSUME NEW c \in Contents, StartWrite(c)
        PROVE  UNCHANGED <<clip, rd, notes>> /\ wr'.steps = <<"suppress", "set">>
    BY <2>3 DEF StartWrite, WriteSteps, WindowsWrite
  <2>4. <<"suppress", "set">> # <<"set">>
    OBVIOUS
  <2> QED
    BY <1>1, <2>1, <2>2, <2>3, <2>4 DEF WindowsOrderly
<1>2. CASE WriteSet
  <2>1. wr # NoWrite /\ rd[Main] = Idle /\ UNCHANGED <<rd, barrier>> /\ wr.steps = <<"set">>
    BY <1>0, <1>2, <1>w DEF WriteSet, OneAtATime
  <2>2. wr' = NoWrite
    BY <1>2, <2>1 DEF WriteSet, Written
  <2> QED
    BY <1>0, <2>1, <2>2 DEF WindowsOrderly
<1>3. CASE Suppress
  BY <1>0, <1>3 DEF WindowsOrderly, Suppress
<1>4. CASE Cancel \/ EndWatch
  BY <1>0, <1>4 DEF WindowsOrderly, Cancel, EndWatch
<1>5. CASE CheckLoad(Main) \/ CheckStore(Main) \/ Send(Main) \/ ReadClipboard \/ OpenFails
  <2>1. rd[Main].at # "idle" /\ UNCHANGED <<clip, wr, barrier>>
    BY <1>5 DEF CheckLoad, CheckStore, Send, ReadClipboard, OpenFails
  <2> QED
    BY <1>0, <2>1 DEF WindowsOrderly
<1>6. CASE WindowsUpdate
  <2>1. rd[Main] = Idle /\ (barrier => rd'[Main] = Idle) /\ notes # <<>> /\ barrier' /\ UNCHANGED clip
    BY <1>6, MainDoes DEF WindowsUpdate, Handling
  <2> QED
    BY <1>0, <2>1 DEF WindowsOrderly
<1>7. CASE Expire
  <2>1. wr = NoWrite /\ UNCHANGED <<clip, wr, notes, rd>> /\ notes \in Seq(Notes)
           /\ \A i \in DOMAIN notes : notes[i].by # "node"
    BY <1>7 DEF Expire, Shape, RestOK
  <2>2. notes # <<>> => Head(notes) = notes[1] /\ 1 \in DOMAIN notes
    BY <2>1
  <2>3. notes # <<>> => clip.by # "node"
    BY <1>0, <2>1, <2>2 DEF OneAtATime
  <2> QED
    BY <1>0, <2>1, <2>3 DEF WindowsOrderly
<1> QED
  BY <1>1, <1>2, <1>3, <1>4, <1>5, <1>6, <1>7, StepsOf, Undisturbed

\* By which hash mac and android check what they read.
LEMMA HashedAs ==
    /\ backend = "mac" => \A i \in DOMAIN Items(clip) : Items(clip)[i].as \in MacAs
    /\ backend = "android" => \A k : \A i \in DOMAIN Items(k) : Items(k)[i].as = "bytes"
<1>1. ASSUME NEW k, NEW as PROVE DOMAIN <<Item(as, k.c, k.by)>> = 1..1 /\ <<Item(as, k.c, k.by)>>[1].as = as
  <2>1. ASSUME NEW x PROVE DOMAIN <<x>> = 1..1 /\ <<x>>[1] = x
    OBVIOUS
  <2>2. Item(as, k.c, k.by).as = as
    BY DEF Item
  <2> QED
    BY <2>1, <2>2
<1>2. ASSUME backend = "android", NEW k, NEW i \in DOMAIN Items(k) PROVE Items(k)[i].as = "bytes"
  <2>1. Items(k) = <<>> \/ Items(k) = <<Item("bytes", k.c, k.by)>>
    BY <1>2 DEF Items
  <2> QED
    BY <1>1, <1>2, <2>1
<1>3. ASSUME backend = "mac", NEW i \in DOMAIN Items(clip)
      PROVE  Items(clip)[i].as \in MacAs
  <2> DEFINE list == Item("list", clip.c, clip.by)
             name == Item("name", clip.c, clip.by)
  <2>1. CASE clip.kind # "path"
    <3>1. Items(clip) = <<>> \/ Items(clip) = <<Item("bytes", clip.c, clip.by)>>
      BY <1>3, <2>1 DEF Items
    <3> QED
      BY <1>1, <1>3, <2>1, <3>1 DEF MacAs
  <2>2. CASE clip.kind = "path"
    <3>1. Items(clip) = <<list>> \o <<name>> \/ Items(clip) = <<>> \o <<name>>
      BY <1>3, <2>2, Zenon DEF Items
    <3>2. list.as = "list" /\ name.as = "name"
      BY DEF Item
    <3> HIDE DEF list, name
    <3>3. /\ <<>> \o <<name>> = <<name>> /\ DOMAIN <<name>> = 1..1 /\ <<name>>[1] = name
          /\ DOMAIN (<<list>> \o <<name>>) = 1..2
          /\ (<<list>> \o <<name>>)[1] = list /\ (<<list>> \o <<name>>)[2] = name
      OBVIOUS
    <3>4. Items(clip)[i] = list \/ Items(clip)[i] = name
      BY <1>3, <3>1, <3>3
    <3> QED
      BY <2>2, <3>2, <3>4 DEF MacAs
  <2> QED
    BY <2>1, <2>2
<1> QED
  BY <1>2, <1>3

\* mac: a tick that finds the written content finds it marked or the window open.
LEMMA MacStays ==
    ASSUME Shape, Orderly, BackendStep, ~disturbed', backend = "mac"
    PROVE  MacOrderly'
<1> USE DEF os, flow, life, score, count
<1>0. ~disturbed /\ OneAtATime /\ MacOrderly /\ Main \in Readers /\ Idle.at = "idle" /\ Idle.todo = <<>>
  BY MainIsReader, Undisturbed DEF Orderly, Idle
<1>w. ASSUME wr # NoWrite, Written, UNCHANGED backend
      PROVE  /\ wr.c \in Contents
             /\ \/ wr.steps = <<"suppress", "clear", "set", "mark">>
                      /\ wr' = [c |-> wr.c, steps |-> <<"clear", "set", "mark">>]
                \/ wr.steps = <<"clear", "set", "mark">>
                      /\ wr' = [c |-> wr.c, steps |-> <<"set", "mark">>]
                \/ wr.steps = <<"set", "mark">> /\ wr' = [c |-> wr.c, steps |-> <<"mark">>]
                \/ wr.steps = <<"mark">> /\ wr' = NoWrite
  BY <1>w, WrittenOK DEF Shape, WriteOK
<1>n. \A c \in Contents : \A s : [c |-> c, steps |-> s] # NoWrite
  BY NothingIsNothing DEF NoWrite
<1>h. /\ Head(<<"suppress", "clear", "set", "mark">>) = "suppress" /\ Head(<<"clear", "set", "mark">>) = "clear"
      /\ Head(<<"set", "mark">>) = "set" /\ Head(<<"mark">>) = "mark"
      /\ <<"clear", "set", "mark">> # <<"mark">> /\ <<"set", "mark">> # <<"mark">>
      /\ <<"suppress", "clear", "set", "mark">> # <<"mark">>
      /\ <<"suppress", "clear", "set", "mark">> # <<"clear", "set", "mark">>
      /\ <<"suppress", "clear", "set", "mark">> # <<"set", "mark">>
  OBVIOUS
<1>i. ASSUME rd'[Main] = Idle PROVE DOMAIN rd'[Main].todo = {} /\ rd'[Main].at \notin {"store", "send"}
  BY <1>0, <1>i
<1>1. CASE \E c \in Contents : UserCopy(c) \/ StartWrite(c)
  <2>1. rd[Main] = Idle /\ ~dirty /\ wr = NoWrite
    BY <1>1, Undisturbed
  <2>2. ASSUME NEW c \in Contents, UserCopy(c) PROVE MacOrderly'
    <3>1. clip'.by = "user" /\ UNCHANGED <<wr, rd>>
      BY <2>2 DEF UserCopy, Changed
    <3> QED
      BY <1>i, <2>1, <3>1 DEF MacOrderly, MacAs
  <2>3. ASSUME NEW c \in Contents, StartWrite(c) PROVE MacOrderly'
    <3>1. UNCHANGED <<clip, rd, dirty, lastHash>> /\ wr' = [c |-> c, steps |-> <<"suppress", "clear", "set", "mark">>]
      BY <2>3 DEF StartWrite, WriteSteps, MacWrite
    <3>2. wr' # NoWrite /\ wr'.steps = <<"suppress", "clear", "set", "mark">>
      BY <1>n, <3>1
    <3> QED
      BY <1>h, <1>i, <2>1, <3>1, <3>2 DEF MacOrderly, MacAs
  <2> QED
    BY <1>1, <2>2, <2>3
<1>2. CASE WriteMark
  <2>1. /\ wr # NoWrite /\ wr.steps = <<"mark">> /\ wr' = NoWrite /\ UNCHANGED <<clip, rd, barrier, dirty>>
        /\ lastHash' = <<"bytes", wr.c>> /\ clip.c = wr.c /\ rd[Main] = Idle
    BY <1>0, <1>2, <1>w, <1>h DEF WriteMark, Mark, Hash, Item, MacOrderly, OneAtATime
  <2> QED
    BY <1>i, <2>1 DEF MacOrderly, MacAs
<1>3. CASE Suppress
  <2>1. /\ wr # NoWrite /\ wr' = [c |-> wr.c, steps |-> <<"clear", "set", "mark">>] /\ wr.c \in Contents
        /\ UNCHANGED rd /\ barrier' /\ rd[Main] = Idle
    BY <1>0, <1>3, <1>w, <1>h DEF Suppress, OneAtATime
  <2>2. wr' # NoWrite /\ wr'.steps # <<"mark">>
    BY <1>n, <1>h, <2>1
  <2> QED
    BY <1>i, <2>1, <2>2 DEF MacOrderly, MacAs
<1>4. CASE MacClear
  <2>1. /\ wr # NoWrite /\ wr' = [c |-> wr.c, steps |-> <<"set", "mark">>] /\ wr.c \in Contents
        /\ UNCHANGED <<rd, barrier>> /\ rd[Main] = Idle /\ wr.steps # <<"suppress", "clear", "set", "mark">>
    BY <1>0, <1>4, <1>w, <1>h DEF MacClear, OneAtATime
  <2>2. wr' # NoWrite /\ wr'.steps # <<"mark">>
    BY <1>n, <1>h, <2>1
  <2> QED
    BY <1>0, <1>i, <2>1, <2>2 DEF MacOrderly, MacAs
<1>5. CASE WriteSet
  <2>1. /\ wr # NoWrite /\ wr' = [c |-> wr.c, steps |-> <<"mark">>] /\ wr.c \in Contents
        /\ UNCHANGED <<rd, barrier>> /\ rd[Main] = Idle /\ wr.steps # <<"suppress", "clear", "set", "mark">>
        /\ clip'.c = wr.c
    BY <1>0, <1>5, <1>w, <1>h DEF WriteSet, OneAtATime
  <2>2. wr' # NoWrite /\ wr'.c = wr.c
    BY <1>n, <2>1
  <2> QED
    BY <1>0, <1>i, <2>1, <2>2 DEF MacOrderly, MacAs
<1>6. CASE Cancel \/ EndWatch \/ Expire
  <2>1. /\ UNCHANGED <<clip, rd, wr, dirty, lastHash>> /\ MacAs' = MacAs
        /\ barrier' = barrier \/ wr = NoWrite
    BY <1>6 DEF Cancel, EndWatch, Expire, MacAs
  <2> QED
    BY <1>0, <2>1 DEF MacOrderly
<1>7. CASE MacTick
  <2>1. rd'[Main] = IF barrier THEN Idle ELSE [at |-> "read", todo |-> <<>>]
    BY <1>7, MainDoes
  <2>2. DOMAIN rd'[Main].todo = {} /\ rd'[Main].at \notin {"store", "send"}
    BY <1>0, <2>1
  <2>3. UNCHANGED <<clip, wr, lastHash, barrier>> /\ ~dirty'
    BY <1>7 DEF MacTick
  <2> QED
    BY <1>0, <2>2, <2>3 DEF MacOrderly, MacAs
<1>r. ASSUME rd[Main].at # "idle" PROVE wr = NoWrite
  BY <1>0, <1>r DEF OneAtATime
<1>8. CASE ReadClipboard
  <2>1. rd'[Main].todo = Items(clip) /\ rd'[Main].at \in {"idle", "load"}
    BY <1>8, MainDoes, CheckingOK, ReadsOK
  <2>2. UNCHANGED <<clip, wr, lastHash>> /\ wr = NoWrite
    BY <1>8, <1>r DEF ReadClipboard
  <2>3. \A i \in DOMAIN rd'[Main].todo : rd'[Main].todo[i].as \in MacAs'
    BY <2>1, <2>2, HashedAs DEF MacAs
  <2> QED
    BY <1>0, <2>1, <2>2, <2>3 DEF MacOrderly, MacAs
<1>9. CASE Send(Main)
  <2>1. rd'[Main] = Idle /\ UNCHANGED <<clip, wr, lastHash>> /\ wr = NoWrite
    BY <1>9, <1>r, MainDoes DEF Send
  <2> QED
    BY <1>0, <1>i, <2>1 DEF MacOrderly, MacAs
<1>10. CASE CheckStore(Main)
  <2>1. /\ rd[Main].at = "store" /\ rd[Main].todo \in Seq(AnyItem) /\ rd[Main].todo # <<>>
        /\ rd'[Main] = [at |-> "send", todo |-> rd[Main].todo]
    BY <1>10, MainDoes
  <2>2. UNCHANGED <<clip, wr>> /\ wr = NoWrite
    BY <1>10, <1>r DEF CheckStore
  <2>3. Head(rd[Main].todo).as \in MacAs
    BY <1>0, <2>1 DEF MacOrderly, MacAs
  <2> QED
    BY <1>0, <2>1, <2>2, <2>3 DEF MacOrderly, MacAs
<1>11. CASE CheckLoad(Main)
  <2> DEFINE todo == rd[Main].todo
  <2>1. /\ rd[Main].at = "load" /\ todo \in Seq(AnyItem) /\ todo # <<>>
        /\ rd'[Main] = IF Hash(Head(todo)) = lastHash THEN Checking(Tail(todo))
                       ELSE [at |-> "store", todo |-> todo]
    BY <1>11, MainDoes
  <2>2. UNCHANGED <<clip, wr, lastHash>> /\ wr = NoWrite
    BY <1>11, <1>r, <2>1 DEF CheckLoad
  <2>3. /\ Head(todo) = todo[1] /\ 1 \in DOMAIN todo /\ Tail(todo) \in Seq(AnyItem)
        /\ \A i \in DOMAIN Tail(todo) : i + 1 \in DOMAIN todo /\ Tail(todo)[i] = todo[i + 1]
    BY <2>1
  <2>4. \A i \in DOMAIN todo : todo[i].as \in MacAs
    BY <1>0 DEF MacOrderly, MacAs
  <2>5. Head(todo).c = clip.c
    BY <1>0, <2>3 DEF OneAtATime, About
  <2>6. CASE Hash(Head(todo)) = lastHash
    <3>1. rd'[Main].todo = Tail(todo) /\ rd'[Main].at \in {"idle", "load"}
      BY <2>1, <2>3, <2>6, CheckingOK
    <3>2. \A i \in DOMAIN Tail(todo) : Tail(todo)[i].as \in MacAs
      BY <2>3, <2>4
    <3> QED
      BY <1>0, <2>2, <3>1, <3>2 DEF MacOrderly, MacAs
  <2>7. CASE Hash(Head(todo)) # lastHash
    <3>1. rd'[Main] = [at |-> "store", todo |-> todo]
      BY <2>1, <2>7
    <3>2. clip.by = "node" => Head(todo).as # "bytes"
      BY <1>0, <2>2, <2>3, <2>4, <2>5, <2>7 DEF MacOrderly, MacAs, Hash
    <3> QED
      BY <1>0, <2>2, <2>4, <3>1, <3>2 DEF MacOrderly, MacAs
  <2> QED
    BY <2>6, <2>7
<1> QED
  BY <1>1, <1>2, <1>3, <1>4, <1>5, <1>6, <1>7, <1>8, <1>9, <1>10, <1>11, StepsOf, Undisturbed

\* android: a push holds what the user copied.
LEMMA AndroidStays ==
    ASSUME Shape, Orderly, BackendStep, ~disturbed', backend = "android"
    PROVE  AndroidOrderly'
<1> USE DEF os, flow, life, score, count
<1>0. ~disturbed /\ OneAtATime /\ AndroidOrderly /\ Main \in Readers /\ Idle.at = "idle" /\ Idle.todo = <<>>
  BY MainIsReader, Undisturbed DEF Orderly, Idle
<1>w. ASSUME wr # NoWrite, Written, UNCHANGED backend
      PROVE  /\ wr.c \in Contents
             /\ \/ wr.steps = <<"mark", "set">> /\ wr' = [c |-> wr.c, steps |-> <<"set">>]
                \/ wr.steps = <<"set">> /\ wr' = NoWrite
  BY <1>w, WrittenOK DEF Shape, WriteOK
<1>n. \A c \in Contents : \A s : [c |-> c, steps |-> s] # NoWrite
  BY NothingIsNothing DEF NoWrite
<1>h. Head(<<"mark", "set">>) = "mark" /\ Head(<<"set">>) = "set" /\ <<"mark", "set">> # <<"set">>
  OBVIOUS
<1>i. ASSUME rd'[Main] = Idle PROVE DOMAIN rd'[Main].todo = {} /\ rd'[Main].at = "idle"
  BY <1>0, <1>i
<1>r. ASSUME rd[Main].at # "idle" PROVE wr = NoWrite
  BY <1>0, <1>r DEF OneAtATime
<1>1. CASE \E c \in Contents : UserCopy(c) \/ StartWrite(c)
  <2>1. rd[Main] = Idle /\ wr = NoWrite
    BY <1>1, Undisturbed
  <2>2. ASSUME NEW c \in Contents, UserCopy(c) PROVE AndroidOrderly'
    <3>1. clip'.by = "user" /\ UNCHANGED <<wr, rd>>
      BY <2>2 DEF UserCopy, Changed
    <3> QED
      BY <1>i, <2>1, <3>1 DEF AndroidOrderly
  <2>3. ASSUME NEW c \in Contents, StartWrite(c) PROVE AndroidOrderly'
    <3>1. UNCHANGED rd /\ wr' = [c |-> c, steps |-> <<"mark", "set">>]
      BY <2>3 DEF StartWrite, WriteSteps, AndroidWrite
    <3>2. wr' # NoWrite /\ wr'.steps # <<"set">>
      BY <1>n, <1>h, <3>1
    <3> QED
      BY <1>i, <2>1, <3>1, <3>2 DEF AndroidOrderly
  <2> QED
    BY <1>1, <2>2, <2>3
<1>2. CASE WriteMark
  <2>1. /\ wr # NoWrite /\ wr' = [c |-> wr.c, steps |-> <<"set">>] /\ wr.c \in Contents
        /\ lastHash' = <<"bytes", wr.c>> /\ UNCHANGED rd /\ rd[Main] = Idle
    BY <1>0, <1>2, <1>w, <1>h DEF WriteMark, Mark, Hash, Item, OneAtATime
  <2>2. wr' # NoWrite /\ wr'.c = wr.c
    BY <1>n, <2>1
  <2> QED
    BY <1>i, <2>1, <2>2 DEF AndroidOrderly
<1>3. CASE WriteSet
  <2>1. /\ wr # NoWrite /\ wr.steps = <<"set">> /\ wr' = NoWrite /\ clip'.c = wr.c
        /\ UNCHANGED <<lastHash, rd, incoming>> /\ rd[Main] = Idle /\ incoming = <<>>
    BY <1>0, <1>3, <1>w, <1>h DEF WriteSet, Changed, OneAtATime
  <2> QED
    BY <1>0, <1>i, <2>1 DEF AndroidOrderly
<1>4. CASE Cancel \/ EndWatch
  BY <1>0, <1>4 DEF AndroidOrderly, Cancel, EndWatch
<1>5. CASE CheckLoad(Main)
  <2> DEFINE todo == rd[Main].todo
  <2>1. /\ rd[Main].at = "load" /\ todo \in Seq(AnyItem) /\ todo # <<>>
        /\ rd'[Main] = IF Hash(Head(todo)) = lastHash THEN Checking(Tail(todo))
                       ELSE [at |-> "store", todo |-> todo]
    BY <1>5, MainDoes
  <2>2. UNCHANGED <<clip, wr, lastHash, incoming>> /\ wr = NoWrite
    BY <1>5, <1>r, <2>1 DEF CheckLoad
  <2>3. /\ Head(todo) = todo[1] /\ 1 \in DOMAIN todo /\ Tail(todo) \in Seq(AnyItem)
        /\ \A i \in DOMAIN Tail(todo) : i + 1 \in DOMAIN todo /\ Tail(todo)[i] = todo[i + 1]
    BY <2>1
  <2>4. \A i \in DOMAIN todo : todo[i].as = "bytes" /\ todo[i].c = clip.c
    BY <1>0 DEF AndroidOrderly, OneAtATime, About
  <2>5. Hash(Head(todo)) = <<"bytes", clip.c>>
    BY <2>3, <2>4 DEF Hash
  <2>6. CASE Hash(Head(todo)) = lastHash
    <3>1. rd'[Main].todo = Tail(todo) /\ rd'[Main].at \in {"idle", "load"}
      BY <2>1, <2>3, <2>6, CheckingOK
    <3>2. \A i \in DOMAIN Tail(todo) : Tail(todo)[i].as = "bytes"
      BY <2>3, <2>4
    <3> QED
      BY <1>0, <2>2, <3>1, <3>2 DEF AndroidOrderly
  <2>7. CASE Hash(Head(todo)) # lastHash
    <3>1. rd'[Main].todo = todo
      BY <2>1, <2>7
    <3>2. clip.by # "node"
      BY <1>0, <2>2, <2>5, <2>7 DEF AndroidOrderly
    <3> QED
      BY <2>2, <2>4, <3>1, <3>2 DEF AndroidOrderly
  <2> QED
    BY <2>6, <2>7
<1>6. CASE CheckStore(Main)
  <2>1. rd[Main].at = "store" /\ rd'[Main].todo = rd[Main].todo
    BY <1>6, MainDoes
  <2>2. UNCHANGED <<clip, wr>> /\ wr = NoWrite
    BY <1>6, <1>r DEF CheckStore
  <2> QED
    BY <1>0, <2>1, <2>2 DEF AndroidOrderly
<1>7. CASE PushLocalCopy
  <2>1. notes # <<>> /\ wr = NoWrite /\ UNCHANGED <<clip, wr, lastHash, incoming>>
    BY <1>0, <1>7 DEF PushLocalCopy, Handling, OneAtATime
  <2>2. rd'[Main].todo = Items(Head(notes)) /\ rd'[Main].at \in {"idle", "load"}
    BY <1>7, <2>1, MainDoes, CheckingOK, ReadsOK
  <2>3. \A i \in DOMAIN rd'[Main].todo : rd'[Main].todo[i].as = "bytes"
    BY <2>2, HashedAs
  <2> QED
    BY <1>0, <2>1, <2>2, <2>3 DEF AndroidOrderly
<1>8. CASE AndroidWatch
  <2>1. /\ incoming # <<>> /\ UNCHANGED <<clip, wr, lastHash, rd>>
        /\ wr = NoWrite
    BY <1>0, <1>8 DEF AndroidWatch, OneAtATime
  <2> QED
    BY <1>0, <2>1 DEF AndroidOrderly
<1>9. CASE AndroidEnqueue
  <2>1. rd[Main].at = "send" /\ rd'[Main] = Idle /\ UNCHANGED <<clip, wr>> /\ wr = NoWrite
    BY <1>9, <1>r, MainDoes DEF AndroidEnqueue
  <2> QED
    BY <1>0, <1>i, <2>1 DEF AndroidOrderly
<1> QED
  BY <1>1, <1>2, <1>3, <1>4, <1>5, <1>6, <1>7, <1>8, <1>9, StepsOf, Undisturbed

\* null: the poll only ever reads what the user put there.
LEMMA NullStays ==
    ASSUME Shape, Orderly, BackendStep, backend = "null"
    PROVE  NullOrderly'
<1> USE DEF os, flow, life, score, count
<1>0. NullOrderly /\ Main \in Readers /\ Idle.todo = <<>>
  BY MainIsReader DEF Orderly, Idle
<1>1. ASSUME NEW c \in Contents, UserCopy(c) \/ StartWrite(c)
      PROVE  NullOrderly'
  BY <1>0, <1>1 DEF UserCopy, StartWrite, Changed, NullOrderly
<1>2. CASE WriteMark \/ WriteFails \/ Cancel \/ EndWatch
  BY <1>0, <1>2 DEF WriteMark, WriteFails, Cancel, EndWatch, NullOrderly
<1>3. CASE CheckLoad(Main)
  <2> DEFINE todo == rd[Main].todo
  <2>1. /\ todo \in Seq(AnyItem) /\ todo # <<>>
        /\ rd'[Main] = IF Hash(Head(todo)) = lastHash THEN Checking(Tail(todo))
                       ELSE [at |-> "store", todo |-> todo]
    BY <1>3, MainDoes
  <2>2. /\ Tail(todo) \in Seq(AnyItem)
        /\ \A i \in DOMAIN Tail(todo) : i + 1 \in DOMAIN todo /\ Tail(todo)[i] = todo[i + 1]
    BY <2>1
  <2>3. Checking(Tail(todo)).todo = Tail(todo)
    BY <2>2, CheckingOK
  <2>4. rd'[Main].todo = todo \/ rd'[Main].todo = Tail(todo)
    BY <2>1, <2>3
  <2>5. UNCHANGED <<clip, incoming>>
    BY <1>3 DEF CheckLoad
  <2> QED
    BY <1>0, <2>2, <2>4, <2>5 DEF NullOrderly
<1>4. CASE CheckStore(Main)
  <2>1. rd'[Main].todo = rd[Main].todo /\ UNCHANGED <<clip, incoming>>
    BY <1>4, MainDoes DEF CheckStore
  <2> QED
    BY <1>0, <2>1 DEF NullOrderly
<1>5. CASE Send(Main)
  <2>1. rd'[Main].todo = <<>> /\ UNCHANGED <<clip, incoming>>
    BY <1>0, <1>5, MainDoes DEF Send
  <2> QED
    BY <1>0, <2>1 DEF NullOrderly
<1>6. CASE NullPoll
  <2>1. UNCHANGED <<clip, rd>>
    BY <1>6 DEF NullPoll
  <2>2. CASE UNCHANGED incoming
    BY <1>0, <2>1, <2>2 DEF NullOrderly
  <2>3. CASE incoming' = Append(incoming, Items(clip)[1])
    <3>1. Items(clip) = <<Item("bytes", clip.c, clip.by)>>
      BY <1>6 DEF NullPoll, Shape, RestOK, Items
    <3>2. Items(clip)[1].by = "user"
      <4>1. ASSUME NEW x PROVE <<x>>[1] = x
        OBVIOUS
      <4>2. Item("bytes", clip.c, clip.by).by = "user"
        BY <1>0 DEF NullOrderly, Item
      <4> QED
        BY <3>1, <4>1, <4>2
    <3>3. \A i \in DOMAIN incoming' : incoming'[i] = Items(clip)[1] \/ (i \in DOMAIN incoming /\ incoming'[i] = incoming[i])
      <4>1. ASSUME NEW x PROVE \A i \in DOMAIN Append(incoming, x) :
               Append(incoming, x)[i] = x \/ (i \in DOMAIN incoming /\ Append(incoming, x)[i] = incoming[i])
        BY DEF Shape, RestOK
      <4> QED
        BY <2>3, <4>1
    <3> QED
      BY <1>0, <2>1, <3>2, <3>3 DEF NullOrderly
  <2> QED
    BY <1>6, <2>2, <2>3 DEF NullPoll
<1>7. CASE NullWatch
  <2>1. /\ incoming # <<>> /\ incoming \in Seq(AnyItem) /\ UNCHANGED clip /\ incoming' = Tail(incoming)
        /\ rd'[Main] = Checking(<<Head(incoming)>>)
    BY <1>7, MainDoes DEF NullWatch, Shape, RestOK
  <2>2. /\ Head(incoming) = incoming[1] /\ 1 \in DOMAIN incoming /\ Head(incoming) \in AnyItem
        /\ \A i \in DOMAIN Tail(incoming) : i + 1 \in DOMAIN incoming /\ Tail(incoming)[i] = incoming[i + 1]
    BY <2>1
  <2>3. ASSUME NEW x \in AnyItem PROVE <<x>> \in Seq(AnyItem) /\ DOMAIN <<x>> = 1..1 /\ <<x>>[1] = x
    OBVIOUS
  <2>4. <<Head(incoming)>> \in Seq(AnyItem)
    BY <2>2, <2>3
  <2>5. rd'[Main].todo = <<Head(incoming)>>
    BY <2>1, <2>4, CheckingOK
  <2>6. \A i \in DOMAIN rd'[Main].todo : rd'[Main].todo[i] = Head(incoming)
    BY <2>2, <2>3, <2>5
  <2> QED
    BY <1>0, <2>1, <2>2, <2>6 DEF NullOrderly
<1> QED
  BY <1>1, <1>2, <1>3, <1>4, <1>5, <1>6, <1>7, StepsOf

\* The steps of wlr.
LEMMA WlrSteps ==
    ASSUME Shape, BackendStep, backend = "wlr"
    PROVE  \/ \E c \in Contents : UserCopy(c) \/ StartWrite(c)
           \/ Suppress \/ WriteSet \/ Expire \/ Cancel \/ End
           \/ \E r \in Readers : WlrSelection(r) \/ WlrRead(r) \/ CheckLoad(r) \/ CheckStore(r)
                                   \/ WlrClosed(r) \/ Send(r)
<1>1. wr # NoWrite => wr.steps \in {<<"suppress", "set">>, <<"set">>}
  BY DEF Shape, WriteOK, StepsLeft, SuppressSet
<1>2. WriteStep => Suppress \/ WriteSet
  BY <1>1 DEF WriteStep, WriteMark, MacClear
<1>3. ~(\/ WriteFails \/ X11IncrDrops \/ X11IncrDone \/ OpenFails
        \/ X11Wait \/ X11Owner \/ X11Targets \/ X11Data
        \/ WindowsUpdate \/ MacTick \/ ReadClipboard \/ WlClipboardTick
        \/ PushLocalCopy \/ NullPoll \/ AndroidWatch \/ NullWatch \/ AndroidEnqueue)
  BY DEF WriteFails, X11IncrDrops, X11IncrDone, OpenFails, X11Wait, X11Owner, X11Targets, X11Data, X11Handles,
        Handling, WindowsUpdate, MacTick, ReadClipboard, WlClipboardTick, PushLocalCopy, NullPoll, AndroidWatch,
        NullWatch, AndroidEnqueue
<1> QED
  BY <1>2, <1>3 DEF BackendStep, WatchStep

\* wlr: what is read outside the window was put there by the user.
LEMMA WlrStays ==
    ASSUME Shape, Orderly, BackendStep, backend = "wlr"
    PROVE  WlrOrderly'
<1> USE DEF os, flow, life, score, count
<1> DEFINE User(q) == \A i \in DOMAIN q : q[i].by = "user"
<1>0. WlrOrderly /\ Idle.todo = <<>> /\ notes \in Seq(Notes)
  BY DEF Orderly, Idle, Shape, RestOK
<1>w. wr # NoWrite => wr.c \in Contents /\ wr.steps \in {<<"suppress", "set">>, <<"set">>}
  BY DEF Shape, WriteOK, StepsLeft, SuppressSet
<1>r. ASSUME NEW r \in Readers, NEW v, rd' = [rd EXCEPT ![r] = v], User(v.todo),
             UNCHANGED <<wr, notes, barrier>>
      PROVE  WlrOrderly'
  <2>1. rd'[r] = v /\ \A s \in Readers : s # r => rd'[s] = rd[s]
    BY <1>r DEF Shape, ReadersOK
  <2>2. \A s \in Readers : User(rd'[s].todo)
    BY <1>0, <1>r, <2>1 DEF WlrOrderly
  <2> QED
    BY <1>0, <1>r, <2>2 DEF WlrOrderly
<1>u. \A r \in Readers : User(rd[r].todo)
  BY <1>0 DEF WlrOrderly
<1>t. ASSUME NEW q \in Seq(AnyItem), q # <<>>, User(q)
      PROVE  Head(q).by = "user" /\ User(Tail(q)) /\ Tail(q) \in Seq(AnyItem) /\ Head(q) \in AnyItem
  <2>1. /\ Tail(q) \in Seq(AnyItem) /\ Head(q) = q[1] /\ 1 \in DOMAIN q /\ Head(q) \in AnyItem
        /\ \A i \in DOMAIN Tail(q) : i + 1 \in DOMAIN q /\ Tail(q)[i] = q[i + 1]
    BY <1>t
  <2> QED
    BY <1>t, <2>1
<1>c. ASSUME NEW q \in Seq(AnyItem) PROVE Checking(q).todo = q
  BY <1>c, CheckingOK
<1>q. \A r \in Readers : rd[r].todo \in Seq(AnyItem)
  BY DEF Shape, ReadersOK
<1>1. ASSUME NEW c \in Contents, UserCopy(c) PROVE WlrOrderly'
  <2>1. /\ notes' = Append(notes, [ev |-> "owner", c |-> c, kind |-> KindOf(c), by |-> "user"])
        /\ UNCHANGED <<rd, wr, barrier>>
    BY <1>1 DEF UserCopy, Changed
  <2>2. ASSUME NEW n, n.by = "user", NEW i \in DOMAIN Append(notes, n), Append(notes, n)[i].by = "node"
        PROVE  i \in DOMAIN notes /\ Append(notes, n)[i] = notes[i]
    BY <1>0, <2>2
  <2>3. [ev |-> "owner", c |-> c, kind |-> KindOf(c), by |-> "user"].by = "user"
    OBVIOUS
  <2>4. \A i \in DOMAIN notes' : notes'[i].by = "node" => i \in DOMAIN notes /\ notes'[i] = notes[i]
    BY <2>1, <2>2, <2>3
  <2> QED
    BY <1>0, <2>1, <2>4 DEF WlrOrderly
<1>2. ASSUME NEW c \in Contents, StartWrite(c) PROVE WlrOrderly'
  <2>1. UNCHANGED <<rd, notes, barrier>> /\ wr'.steps = <<"suppress", "set">> /\ <<"suppress", "set">> # <<"set">>
    BY <1>2 DEF StartWrite, WriteSteps, WlrWrite
  <2> QED
    BY <1>0, <2>1 DEF WlrOrderly
<1>3. CASE Suppress
  BY <1>0, <1>3 DEF WlrOrderly, Suppress
<1>4. CASE WriteSet
  <2>1. wr.steps = <<"set">> /\ barrier /\ UNCHANGED <<rd, barrier>>
    BY <1>0, <1>4, <1>w DEF WriteSet, WlrOrderly
  <2> QED
    BY <1>0, <2>1 DEF WlrOrderly
<1>5. CASE Expire
  BY <1>0, <1>5 DEF WlrOrderly, Expire
<1>6. CASE Cancel \/ End
  BY <1>0, <1>6 DEF WlrOrderly, Cancel, End, EndWatch, WlrClose
<1>7. ASSUME NEW r \in Readers, WlrSelection(r) PROVE WlrOrderly'
  <2>1. notes # <<>> /\ notes' = Tail(notes) /\ barrier' /\ UNCHANGED wr
    BY <1>7 DEF WlrSelection
  <2>2. CASE rd' = rd
    BY <1>0, <2>1, <2>2 DEF WlrOrderly
  <2>3. CASE rd' # rd
    <3>1. ~barrier /\ rd' = [rd EXCEPT ![r] = [at |-> "read", todo |-> Items(Head(notes))]]
      BY <1>7, <2>3 DEF WlrSelection
    <3>2. Head(notes) = notes[1] /\ 1 \in DOMAIN notes /\ Head(notes) \in Notes
      BY <1>0, <2>1
    <3>3. Head(notes).by = "user"
      BY <1>0, <3>1, <3>2 DEF WlrOrderly, Notes, Bys
    <3>4. User(Items(Head(notes)))
      BY <2>1, <3>3, ReadsOK
    <3>5. rd'[r] = [at |-> "read", todo |-> Items(Head(notes))] /\ \A s \in Readers : s # r => rd'[s] = rd[s]
      BY <3>1 DEF Shape, ReadersOK
    <3>6. \A s \in Readers : User(rd'[s].todo)
      BY <1>u, <3>4, <3>5
    <3> QED
      BY <2>1, <3>6 DEF WlrOrderly
  <2> QED
    BY <2>2, <2>3
<1>8. ASSUME NEW r \in Readers, WlrRead(r) PROVE WlrOrderly'
  <2> DEFINE part == [Head(rd[r].todo) EXCEPT !.as = "part"]
  <2>1. PICK items \in {rd[r].todo, <<part>>, <<>>} : rd' = [rd EXCEPT ![r] = Checking(items)]
    BY <1>8 DEF WlrRead
  <2>2. rd[r].todo # <<>>
    BY <1>8 DEF WlrRead, Shape, ReadersOK, ReaderOK
  <2>3. Head(rd[r].todo) \in AnyItem /\ Head(rd[r].todo).by = "user"
    BY <1>q, <1>t, <1>u, <2>2
  <2>4. part \in AnyItem /\ part.by = "user"
    BY <2>3 DEF AnyItem
  <2> HIDE DEF part
  <2>5. <<part>> \in Seq(AnyItem) /\ <<>> \in Seq(AnyItem) /\ User(<<part>>) /\ User(<<>>)
    BY <2>4
  <2>6. items = rd[r].todo \/ items = <<part>> \/ items = <<>>
    BY <2>1
  <2>7. items \in Seq(AnyItem) /\ User(items)
    <3> HIDE DEF User
    <3> QED
      BY <1>q, <1>u, <2>5, <2>6, Zenon
  <2>8. UNCHANGED <<wr, notes, barrier>>
    BY <1>8 DEF WlrRead
  <2> QED
    BY <1>c, <1>r, <2>1, <2>7, <2>8
<1>9. ASSUME NEW r \in Readers, CheckLoad(r) PROVE WlrOrderly'
  <2>1. rd[r].todo # <<>> /\ UNCHANGED <<wr, notes, barrier>>
    BY <1>9 DEF CheckLoad, Shape, ReadersOK, ReaderOK
  <2>2. User(Tail(rd[r].todo)) /\ Tail(rd[r].todo) \in Seq(AnyItem)
    BY <1>q, <1>t, <1>u, <2>1
  <2>3. Checking(Tail(rd[r].todo)).todo = Tail(rd[r].todo)
    BY <1>c, <2>2
  <2>4. [rd[r] EXCEPT !.at = "store"] = [at |-> "store", todo |-> rd[r].todo]
    BY AtMoves DEF Shape
  <2>5. CASE Hash(Head(rd[r].todo)) = lastHash
    <3>1. rd' = [rd EXCEPT ![r] = Checking(Tail(rd[r].todo))]
      BY <1>9, <2>5 DEF CheckLoad
    <3> QED
      BY <1>r, <2>1, <2>2, <2>3, <3>1
  <2>6. CASE Hash(Head(rd[r].todo)) # lastHash
    <3>1. rd' = [rd EXCEPT ![r] = [at |-> "store", todo |-> rd[r].todo]]
      BY <1>9, <2>4, <2>6 DEF CheckLoad
    <3> QED
      BY <1>r, <1>u, <2>1, <3>1
  <2> QED
    BY <2>5, <2>6
<1>10. ASSUME NEW r \in Readers, CheckStore(r) PROVE WlrOrderly'
  <2>1. rd' = [rd EXCEPT ![r] = [at |-> "send", todo |-> rd[r].todo]] /\ UNCHANGED <<wr, notes, barrier>>
    BY <1>10, AtMoves DEF CheckStore, Shape
  <2> QED
    BY <1>r, <1>u, <2>1
<1>11. ASSUME NEW r \in Readers, WlrClosed(r) PROVE WlrOrderly'
  <2>1. [rd[r] EXCEPT !.at = "sending"] = [at |-> "sending", todo |-> rd[r].todo]
    BY AtMoves DEF Shape
  <2>2. \/ rd' = [rd EXCEPT ![r] = Idle]
        \/ rd' = [rd EXCEPT ![r] = [at |-> "sending", todo |-> rd[r].todo]]
    <3>1. CASE watch = "on"
      BY <1>11, <2>1, <3>1 DEF WlrClosed
    <3>2. CASE watch # "on"
      BY <1>11, <3>2 DEF WlrClosed
    <3> QED
      BY <3>1, <3>2
  <2>3. UNCHANGED <<wr, notes, barrier>>
    BY <1>11 DEF WlrClosed
  <2> QED
    BY <1>0, <1>r, <1>u, <2>2, <2>3
<1>12. ASSUME NEW r \in Readers, Send(r) PROVE WlrOrderly'
  <2>1. rd' = [rd EXCEPT ![r] = Idle] /\ UNCHANGED <<wr, notes, barrier>>
    BY <1>12 DEF Send
  <2>2. User(Idle.todo)
    BY <1>0
  <2> HIDE DEF User
  <2> QED
    BY <1>r, <2>1, <2>2
<1> QED
  BY <1>1, <1>2, <1>3, <1>4, <1>5, <1>6, <1>7, <1>8, <1>9, <1>10, <1>11, <1>12, WlrSteps

\* What is sent, while the invariant holds, is not what Write put there.
LEMMA OutStays ==
    ASSUME Shape, Orderly, LoopProtected, BackendStep
    PROVE  LoopProtected'
<1> USE DEF os, flow, life, score, count
<1>0. UNCHANGED backend /\ (disturbed => disturbed')
  BY SameBackend, Undisturbed
<1>1. ASSUME NEW x, out' = out \cup {x},
             x.by = "node" => \/ disturbed /\ backend \notin {"wlr", "null"}
                              \/ backend = "wl_clipboard"
                              \/ backend = "mac" /\ x.as \in {"list", "name"}
      PROVE  LoopProtected'
  BY <1>0, <1>1 DEF LoopProtected
<1>2. CASE out' = out
  BY <1>0, <1>2 DEF LoopProtected
<1>3. CASE AndroidWatch
  <2>1. incoming # <<>> /\ out' = out \cup {Head(incoming)} /\ backend = "android"
    BY <1>3 DEF AndroidWatch
  <2>2. ~disturbed => Head(incoming).by # "node"
    <3>1. ~disturbed => OneAtATime /\ AndroidOrderly
      BY <2>1 DEF Orderly
    <3> QED
      BY <2>1, <3>1 DEF OneAtATime, AndroidOrderly
  <2> QED
    BY <1>1, <2>1, <2>2
<1>4. ASSUME NEW r \in Readers, Send(r) PROVE LoopProtected'
  <2>1. /\ rd[r].at \in {"send", "sending"} /\ rd[r].todo \in Seq(AnyItem) /\ rd[r].todo # <<>>
        /\ (backend # "wlr" => r = Main)
    BY <1>4 DEF Send, Shape, ReadersOK, ReaderOK, Idle
  <2>2. Head(rd[r].todo) = rd[r].todo[1] /\ 1 \in DOMAIN rd[r].todo
    BY <2>1
  <2>3. Idle.at = "idle"
    BY DEF Idle
  <2>4. CASE backend \in {"wlr", "null"}
    <3>1. Head(rd[r].todo).by = "user"
      BY <2>1, <2>2, <2>4 DEF Orderly, WlrOrderly, NullOrderly
    <3> QED
      BY <1>1, <1>2, <1>4, <3>1 DEF Send
  <2>5. CASE backend \in {"x11", "windows"} /\ ~disturbed
    <3>1. Head(rd[r].todo).by = clip.by /\ clip.by # "node"
      BY <2>1, <2>2, <2>3, <2>5 DEF Orderly, OneAtATime, About, X11Orderly, WindowsOrderly
    <3> QED
      BY <1>1, <1>2, <1>4, <3>1 DEF Send
  <2>6. CASE backend = "mac" /\ ~disturbed
    <3>1. Head(rd[r].todo).by = clip.by /\ rd[r].at = "send" /\ r = Main /\ MacOrderly
      BY <1>4, <2>1, <2>2, <2>6 DEF Orderly, OneAtATime, About, Send
    <3>2. Head(rd[r].todo).as \in {"list", "name", "bytes"}
      BY <2>2, <3>1 DEF MacOrderly, MacAs
    <3>3. Head(rd[r].todo).by = "node" => Head(rd[r].todo).as \in {"list", "name"}
      BY <3>1, <3>2 DEF MacOrderly
    <3> QED
      BY <1>1, <1>2, <1>4, <2>6, <3>3 DEF Send
  <2>7. CASE backend = "wl_clipboard" \/ (disturbed /\ backend \notin {"wlr", "null"})
    BY <1>1, <1>2, <1>4, <2>7 DEF Send
  <2>8. backend \in {"x11", "wlr", "wl_clipboard", "windows", "mac", "android", "null"} /\ backend # "android"
    BY <1>4, BackendsKnown DEF Shape, Send
  <2> QED
    BY <2>4, <2>5, <2>6, <2>7, <2>8
<1>5. (\/ \E c \in Contents : UserCopy(c) \/ StartWrite(c)
       \/ WriteStep \/ WriteFails \/ Expire \/ Cancel \/ End) => out' = out
  BY DEF UserCopy, StartWrite, WriteStep, WriteMark, Suppress, MacClear, WriteSet, WriteFails, Expire, Cancel, End,
        EndWatch, WlrClose
<1>6. (\/ X11Wait \/ X11Owner \/ X11Targets \/ X11Data \/ X11IncrDrops \/ X11IncrDone
       \/ WindowsUpdate \/ MacTick \/ ReadClipboard \/ OpenFails \/ WlClipboardTick \/ PushLocalCopy
       \/ NullPoll \/ NullWatch \/ AndroidEnqueue)
      => out' = out
  BY DEF X11Wait, X11Owner, X11Targets, X11Data, X11Handles, X11IncrDrops, X11IncrDone, WindowsUpdate, MacTick,
        ReadClipboard, OpenFails, WlClipboardTick, PushLocalCopy, NullPoll, NullWatch, AndroidEnqueue
<1>7. ASSUME NEW r \in Readers, WlrSelection(r) \/ WlrRead(r) \/ CheckLoad(r) \/ CheckStore(r) \/ WlrClosed(r)
      PROVE  out' = out
  BY <1>7 DEF WlrSelection, WlrRead, CheckLoad, CheckStore, WlrClosed
<1> QED
  BY <1>2, <1>3, <1>4, <1>5, <1>6, <1>7 DEF BackendStep, WatchStep

\* Nothing is under way at the start.
LEMMA InitLoop == Init => LoopInv
<1> SUFFICES ASSUME Init PROVE LoopInv
  OBVIOUS
<1>1. rd[Main] = Idle /\ Idle.todo = <<>> /\ Idle.at = "idle" /\ \A r \in Readers : rd[r] = Idle
  BY MainIsReader DEF Init, Idle
<1>2. clip.by = "user"
  BY DEF Init, Empty
<1>3. OneAtATime /\ X11Orderly /\ WindowsOrderly /\ MacOrderly /\ AndroidOrderly /\ WlrOrderly /\ NullOrderly
  BY <1>1, <1>2 DEF Init, OneAtATime, About, X11Orderly, WindowsOrderly, MacOrderly, AndroidOrderly, WlrOrderly,
        NullOrderly
<1> QED
  BY <1>3, InitShape DEF LoopInv, Orderly, LoopProtected, Init

\* Every step of every backend keeps things in order.
LEMMA NextLoop == LoopInv /\ [Next]_vars => LoopInv'
<1> SUFFICES ASSUME LoopInv, [Next]_vars PROVE LoopInv'
  OBVIOUS
<1>0. Shape /\ Orderly /\ LoopProtected /\ Shape'
  BY NextShape DEF LoopInv
<1>1. CASE MonitorStep \/ UNCHANGED vars
  BY <1>0, <1>1, MonitorBeside DEF LoopInv, LoopProtected, Orderly, OneAtATime, About, X11Orderly,
        WindowsOrderly, MacOrderly, MacAs, AndroidOrderly, WlrOrderly, NullOrderly
<1>2. CASE BackendStep
  <2>1. UNCHANGED backend
    BY <1>2, SameBackend
  <2>2. Orderly'
    BY <1>0, <1>2, <2>1, OneStays, X11Stays, WindowsStays, MacStays, AndroidStays, WlrStays, NullStays DEF Orderly
  <2> QED
    BY <1>0, <1>2, <2>2, OutStays DEF LoopInv
<1> QED
  BY <1>1, <1>2 DEF Next

\* Loop protection (Mark in Write, Suppress, and Check in every Watch): no update
\* carries what Write itself put on the clipboard, except on wl_clipboard, for
\* the file lists of mac, or, where there is one content at a time to remember,
\* when a change began before the previous one was settled.
THEOREM EventfulLoopProtected == Spec => []LoopProtected
<1>1. LoopInv => LoopProtected
  BY DEF LoopInv
<1> QED
  BY <1>1, InitLoop, NextLoop, PTL DEF Spec

-----------------------------------------------------------------------------
(* Agreement. *)

\* If the Deduplicator has seen anything, the last was c.
Seen(c) == lastHash # NoHash => lastHash[2] = c

\* x11, mac and android: what the Deduplicator saw last is what the network has,
\* or is about to have; a change that is no longer on its way has arrived.
Reported ==
    /\ wr # NoWrite => shared.c = wr.c
    /\ wr # NoWrite /\ wr.steps = <<"set">> => Seen(wr.c)
    /\ wr # NoWrite /\ wr.steps = <<"mark">> => clip.by = "node"
    /\ wr = NoWrite /\ rd[Main].at # "send" /\ incoming = <<>> => Seen(shared.c)
    /\ rd[Main].at = "send" \/ incoming # <<>> => Seen(clip.c)
    /\ rd[Main].at = "incr" => rd[Main].todo = Items(clip)
    /\ wr = NoWrite /\ clip.by = "node" => shared.c = clip.c
    /\ wr = NoWrite /\ barrier => clip.by = "node"
    /\ (/\ wr = NoWrite /\ notes = <<>> /\ ~dirty /\ rd[Main] = Idle /\ incoming = <<>>
        /\ Items(clip) # <<>>) => shared.c = clip.c

\* wl_clipboard reads at every tick, also while it writes, and may send the old
\* content then; the tick after the write sends the new one again.
Polled ==
    /\ rd[Main].todo # <<>> => Tail(rd[Main].todo) = <<>> /\ Head(rd[Main].todo).as = "bytes"
    /\ wr.steps # <<"mark", "set">> /\ rd[Main].at \in {"idle", "load"} =>
          lastHash \in {NoHash, <<"bytes", shared.c>>}
    /\ rd[Main].at = "send" => lastHash = <<"bytes", Head(rd[Main].todo).c>>
    /\ ~dirty /\ wr = NoWrite =>
          IF rd[Main] = Idle
          THEN clip.kind # "none" => shared.c = clip.c /\ lastHash = <<"bytes", clip.c>>
          ELSE Head(rd[Main].todo).c = clip.c
    /\ wr.steps = <<"mark", "set">> =>
          /\ shared.c = wr.c /\ rd[Main].at \in {"idle", "load"}
          /\ clip.kind # "none" => lastHash = <<"bytes", clip.c>>
          /\ rd[Main].at = "load" => Head(rd[Main].todo).c = clip.c /\ clip.kind # "none"

Agreeing ==
    ~disturbed /\ ~ctx =>
       /\ backend \in {"x11", "mac", "android"} => Reported
       /\ backend = "wl_clipboard" => Polled

SettledInv == LoopInv /\ Agreeing

\* While the context is not done, Watch goes on.
LEMMA StillOn ==
    ASSUME Shape, BackendStep, ~ctx'
    PROVE  ~ctx /\ watch = "on" /\ ~Cancel /\ ~EndWatch
<1> USE DEF os, flow, life, score, count
<1>1. ~Cancel /\ (EndWatch => ctx /\ ctx' = ctx) /\ (WlrClose => ctx' = ctx)
  BY DEF Cancel, EndWatch, WlrClose
<1>2. (\/ \E c \in Contents : UserCopy(c) \/ StartWrite(c)
       \/ WriteStep \/ WriteFails \/ Expire) => ctx' = ctx
  BY DEF UserCopy, StartWrite, WriteStep, WriteMark, Suppress, MacClear, WriteSet, WriteFails, Expire
<1>3. (\/ X11Wait \/ X11Owner \/ X11Targets \/ X11Data \/ X11IncrDrops \/ X11IncrDone
       \/ WindowsUpdate \/ MacTick \/ ReadClipboard \/ OpenFails \/ WlClipboardTick \/ PushLocalCopy
       \/ NullPoll \/ NullWatch \/ AndroidEnqueue \/ AndroidWatch)
      => ctx' = ctx
  BY DEF X11Wait, X11Owner, X11Targets, X11Data, X11Handles, X11IncrDrops, X11IncrDone, WindowsUpdate, MacTick,
        ReadClipboard, OpenFails, WlClipboardTick, PushLocalCopy, NullPoll, NullWatch, AndroidEnqueue, AndroidWatch
<1>4. ASSUME NEW r \in Readers,
             WlrSelection(r) \/ WlrRead(r) \/ CheckLoad(r) \/ CheckStore(r) \/ WlrClosed(r) \/ Send(r)
      PROVE  ctx' = ctx
  BY <1>4 DEF WlrSelection, WlrRead, CheckLoad, CheckStore, WlrClosed, Send
<1>5. ctx' = ctx
  BY <1>1, <1>2, <1>3, <1>4 DEF BackendStep, WatchStep, End
<1> QED
  BY <1>1, <1>5 DEF Shape, RestOK

\* An item whose hash was the last one seen is what was seen.
LEMMA SeenHash ==
    ASSUME NEW x \in AnyItem, NEW c
    PROVE  /\ Hash(x) # NoHash
           /\ Hash(x) = lastHash /\ Seen(c) => x.c = c
           /\ lastHash' = Hash(x) => Seen(x.c)'
<1>1. Hash(x) \in {"bytes", "list", "name", "part"} \X (Contents \cup {NoContent}) /\ Hash(x)[2] = x.c
  BY DEF Hash, AnyItem, Cs
<1>2. Hash(x) # NoHash
  BY <1>1, NothingIsNothing
<1>3. Hash(x) = lastHash /\ Seen(c) => x.c = c
  BY <1>1, <1>2 DEF Seen
<1>4. ASSUME lastHash' = Hash(x) PROVE Seen(x.c)'
  BY <1>1, <1>4 DEF Seen
<1> QED
  BY <1>2, <1>3, <1>4

\* What a read yields depends only on the content, its kind and its owner.
LEMMA ItemsSame ==
    ASSUME NEW k, NEW l, k.c = l.c, k.kind = l.kind, k.by = l.by
    PROVE  Items(k) = Items(l)
BY DEF Items, Item

\* x11, mac and android: what is in the clipboard was seen or is on its way.
LEMMA ReportedStays ==
    ASSUME Shape, Orderly, Agreeing, BackendStep, ~disturbed', ~ctx', backend \in {"x11", "mac", "android"}
    PROVE  Reported'
<1> USE DEF os, flow, life, score, count
<1>0. /\ Main \in Readers /\ OneAtATime /\ Reported /\ (backend = "mac" => MacOrderly)
      /\ ~ctx /\ watch = "on"
  BY MainIsReader, Undisturbed, StillOn DEF Orderly, Agreeing
<1>i. Idle.at = "idle" /\ Idle.todo = <<>>
  BY DEF Idle
<1>w. wr # NoWrite => wr.c \in Contents /\ wr.steps \in StepsLeft
  BY DEF Shape, WriteOK
<1>n. \A c \in Contents : \A s : [c |-> c, steps |-> s] # NoWrite
  BY NothingIsNothing DEF NoWrite
<1>s. \A c : UNCHANGED lastHash => Seen(c)' = Seen(c)
  BY DEF Seen
<1>k. UNCHANGED <<backend, clip>> => Items(clip)' = Items(clip)
  BY DEF Items, Item
<1>r. ASSUME rd[Main].at # "idle" PROVE wr = NoWrite /\ notes = <<>> /\ incoming = <<>>
  BY <1>0, <1>i, <1>r DEF OneAtATime
<1>c. ASSUME NEW q \in Seq(AnyItem)
      PROVE  /\ Checking(q).at \in {"idle", "load"} /\ Checking(q).todo = q
             /\ Checking(q) = Idle => q = <<>>
  BY <1>c, <1>i, CheckingOK
<1>1. CASE \E c \in Contents : UserCopy(c) \/ StartWrite(c)
  <2>0. /\ notes = <<>> /\ ~dirty /\ ~barrier /\ incoming = <<>> /\ wr = NoWrite
        /\ rd[Main] = Idle
    BY <1>1, Undisturbed
  <2>1. ASSUME NEW c \in Contents, UserCopy(c) PROVE Reported'
    <3>1. /\ clip'.by = "user" /\ UNCHANGED <<wr, rd, incoming, lastHash, shared, barrier>>
          /\ notes' # <<>> \/ dirty'
      <4>1. Changed(c, KindOf(c), "user") /\ notes \in Seq(Notes)
        BY <2>1 DEF UserCopy, Shape, RestOK
      <4>2. ASSUME NEW x PROVE Append(notes, x) # <<>>
        BY <4>1
      <4>3. notes' # <<>> \/ dirty'
        <5>1. CASE backend = "mac"
          BY <4>1, <5>1 DEF Changed
        <5>2. CASE backend \in {"x11", "android"}
          <6>1. notes' = Append(notes, [ev |-> "owner", c |-> c, kind |-> KindOf(c), by |-> "user"])
            BY <4>1, <5>2 DEF Changed
          <6> QED
            BY <4>2, <6>1
        <5> QED
          BY <5>1, <5>2
      <4> QED
        BY <2>1, <4>1, <4>3 DEF UserCopy, Changed
    <3> QED
      BY <1>0, <1>i, <1>s, <2>0, <3>1 DEF Reported
  <2>2. ASSUME NEW c \in Contents, StartWrite(c) PROVE Reported'
    <3>1. /\ wr' = [c |-> c, steps |-> WriteSteps] /\ shared'.c = c
          /\ UNCHANGED <<rd, incoming, lastHash, clip, barrier>>
      BY <2>2 DEF StartWrite, Item
    <3>2. wr' # NoWrite /\ wr'.c = c /\ wr'.steps = WriteSteps
      BY <1>n, <3>1
    <3>3. WriteSteps # <<"set">> /\ WriteSteps # <<"mark">>
      BY DEF WriteSteps, X11Write, MacWrite, AndroidWrite
    <3> QED
      BY <1>i, <2>0, <3>1, <3>2, <3>3 DEF Reported
  <2> QED
    BY <1>1, <2>1, <2>2
<1>2. CASE WriteMark
  <2>1. /\ wr # NoWrite /\ rd[Main] = Idle /\ incoming = <<>> /\ shared.c = wr.c
        /\ lastHash' = <<"bytes", wr.c>>
        /\ UNCHANGED <<rd, incoming, shared, clip, barrier, backend>>
    BY <1>0, <1>2 DEF WriteMark, Mark, Hash, Item, OneAtATime, Reported
  <2>2. lastHash'[2] = wr.c
    BY <2>1
  <2>3. CASE backend = "mac"
    <3>1. wr.steps = <<"mark">> /\ wr' = NoWrite
      BY <1>2, <1>w, <2>1, <2>3, WrittenOK DEF WriteMark, Shape, WriteOK
    <3>2. clip.c = wr.c /\ clip.by = "node"
      BY <1>0, <2>1, <2>3, <3>1 DEF MacOrderly, Reported
    <3>3. Seen(shared.c)'
      BY <2>1, <2>2 DEF Seen
    <3> QED
      BY <1>i, <2>1, <3>1, <3>2, <3>3 DEF Reported
  <2>4. CASE backend # "mac"
    <3>1. wr' = [c |-> wr.c, steps |-> <<"set">>] /\ wr.c \in Contents
      BY <1>2, <1>w, <2>1, <2>4, WrittenOK DEF WriteMark, Shape, WriteOK
    <3>2. wr' # NoWrite /\ wr'.c = wr.c /\ wr'.steps # <<"mark">>
      BY <1>n, <3>1
    <3>3. shared'.c = wr'.c /\ Seen(wr.c)'
      BY <2>1, <2>2, <3>2 DEF Seen
    <3> QED
      BY <1>i, <2>1, <3>2, <3>3 DEF Reported
  <2> QED
    BY <2>3, <2>4
<1>3. CASE Suppress \/ MacClear
  <2>1. backend = "mac" /\ wr # NoWrite /\ rd[Main] = Idle /\ incoming = <<>>
    <3>1. wr # NoWrite /\ Head(wr.steps) \in {"suppress", "clear"}
      BY <1>3 DEF Suppress, MacClear
    <3>2. backend # "mac" => wr.steps \in MarkSet
      BY <1>w, <3>1 DEF StepsLeft
    <3>3. backend = "mac"
      BY <3>1, <3>2 DEF MarkSet
    <3> QED
      BY <1>0, <3>1, <3>3 DEF OneAtATime
  <2>2. wr' \in {[c |-> wr.c, steps |-> <<"clear", "set", "mark">>], [c |-> wr.c, steps |-> <<"set", "mark">>]}
    BY <1>3, <1>w, <2>1, WrittenOK DEF Suppress, MacClear, Shape, WriteOK
  <2>3. wr' # NoWrite /\ wr'.c = wr.c /\ wr'.steps # <<"set">> /\ wr'.steps # <<"mark">>
    BY <1>n, <1>w, <2>1, <2>2
  <2>4. UNCHANGED <<rd, incoming, shared>>
    BY <1>3 DEF Suppress, MacClear
  <2> QED
    BY <1>0, <1>i, <2>1, <2>3, <2>4 DEF Reported
<1>4. CASE WriteSet
  <2>1. /\ wr # NoWrite /\ wr.c \in Contents /\ rd[Main] = Idle /\ incoming = <<>> /\ shared.c = wr.c
        /\ clip'.c = wr.c /\ clip'.by = "node" /\ UNCHANGED <<rd, incoming, shared, lastHash, barrier>>
    BY <1>0, <1>4, <1>w DEF WriteSet, Changed, OneAtATime, Reported
  <2>2. CASE backend = "mac"
    <3>1. wr' = [c |-> wr.c, steps |-> <<"mark">>]
      BY <1>4, <1>w, <2>1, <2>2, WrittenOK DEF WriteSet, Shape, WriteOK
    <3>2. wr' # NoWrite /\ wr'.c = wr.c /\ wr'.steps # <<"set">>
      BY <1>n, <2>1, <3>1
    <3> QED
      BY <1>i, <2>1, <3>2 DEF Reported
  <2>3. CASE backend # "mac"
    <3>1. wr.steps = <<"set">> /\ wr' = NoWrite
      BY <1>4, <1>w, <2>1, <2>3, WrittenOK DEF WriteSet, Shape, WriteOK
    <3>2. Seen(wr.c)
      BY <1>0, <2>1, <3>1 DEF Reported
    <3>3. Seen(shared.c)'
      BY <2>1, <3>2 DEF Seen
    <3> QED
      BY <1>i, <2>1, <3>1, <3>3 DEF Reported
  <2> QED
    BY <2>2, <2>3

<1>5. CASE Expire
  <2>1. wr = NoWrite /\ ~barrier' /\ UNCHANGED <<backend, clip, wr, rd, incoming, shared, lastHash, notes, dirty>>
    BY <1>5 DEF Expire
  <2> QED
    BY <1>0, <1>k, <1>s, <2>1 DEF Reported
<1>6. CASE MacTick
  <2>1. rd[Main] = Idle /\ rd'[Main] = IF barrier THEN Idle ELSE [at |-> "read", todo |-> <<>>]
    BY <1>6, MainDoes
  <2>2. UNCHANGED <<backend, clip, wr, incoming, shared, lastHash, notes, barrier>> /\ Items(clip)' = Items(clip)
    BY <1>6, <1>k DEF MacTick
  <2>3. rd'[Main].at \in {"idle", "read"} /\ (rd'[Main] = Idle => barrier)
    BY <1>i, <2>1
  <2> QED
    BY <1>0, <1>i, <1>s, <2>1, <2>2, <2>3 DEF Reported
<1>7. CASE ReadClipboard
  <2>1. rd[Main].at = "read" /\ rd'[Main] = Checking(Items(clip)) /\ Items(clip) \in Seq(AnyItem)
    BY <1>7, MainDoes, ReadsOK
  <2>2. UNCHANGED <<backend, clip, wr, incoming, shared, lastHash, notes, barrier>> /\ Items(clip)' = Items(clip)
    BY <1>7, <1>k DEF ReadClipboard
  <2>3. rd'[Main].at \in {"idle", "load"} /\ (rd'[Main] = Idle => Items(clip) = <<>>)
    BY <1>c, <2>1
  <2> QED
    BY <1>0, <1>r, <1>s, <2>1, <2>2, <2>3 DEF Reported
<1>8. CASE CheckLoad(Main)
  <2> DEFINE todo == rd[Main].todo
  <2>1. /\ rd[Main].at = "load" /\ todo \in Seq(AnyItem) /\ todo # <<>>
        /\ rd'[Main] = IF Hash(Head(todo)) = lastHash THEN Checking(Tail(todo))
                       ELSE [at |-> "store", todo |-> todo]
    BY <1>8, MainDoes
  <2>2. UNCHANGED <<backend, clip, wr, incoming, shared, lastHash, notes, barrier>> /\ Items(clip)' = Items(clip)
    BY <1>8, <1>k DEF CheckLoad
  <2>3. /\ wr = NoWrite /\ incoming = <<>> /\ Seen(shared.c)
    BY <1>0, <1>r, <2>1 DEF Reported
  <2>4. Head(todo) \in AnyItem /\ Tail(todo) \in Seq(AnyItem) /\ Head(todo).c = clip.c
    BY <1>0, <2>1, AboutClip DEF OneAtATime
  <2>5. CASE Hash(Head(todo)) = lastHash
    <3>1. shared.c = clip.c
      BY <2>3, <2>4, <2>5, SeenHash
    <3>2. rd'[Main].at \in {"idle", "load"}
      BY <1>c, <2>1, <2>4, <2>5
    <3> QED
      BY <1>0, <1>s, <2>2, <2>3, <3>1, <3>2 DEF Reported
  <2>6. CASE Hash(Head(todo)) # lastHash
    <3>1. rd'[Main].at = "store" /\ rd'[Main] # Idle
      BY <1>i, <2>1, <2>6
    <3> QED
      BY <1>0, <1>s, <2>2, <2>3, <3>1 DEF Reported
  <2> QED
    BY <2>5, <2>6
<1>9. CASE CheckStore(Main)
  <2>1. /\ rd[Main].at = "store" /\ rd[Main].todo \in Seq(AnyItem) /\ rd[Main].todo # <<>>
        /\ rd'[Main] = [at |-> "send", todo |-> rd[Main].todo]
    BY <1>9, MainDoes
  <2>2. UNCHANGED <<backend, clip, wr, incoming, shared, notes, barrier>> /\ Items(clip)' = Items(clip)
    BY <1>9, <1>k DEF CheckStore
  <2>3. wr = NoWrite /\ incoming = <<>>
    BY <1>r, <2>1
  <2>4. Head(rd[Main].todo) \in AnyItem /\ Head(rd[Main].todo).c = clip.c
    BY <1>0, <2>1, AboutClip DEF OneAtATime
  <2>5. Seen(clip.c)'
    <3>1. lastHash' = Hash(Head(rd[Main].todo))
      BY <1>9 DEF CheckStore
    <3>2. lastHash'[2] = clip.c
      BY <2>4, <3>1 DEF Hash
    <3> QED
      BY <2>2, <3>2 DEF Seen
  <2>6. rd'[Main].at = "send" /\ rd'[Main] # Idle
    BY <1>i, <2>1
  <2> QED
    BY <1>0, <2>2, <2>3, <2>5, <2>6 DEF Reported
<1>10. CASE Send(Main) /\ backend # "android"
  <2>1. /\ rd[Main].at = "send" /\ rd[Main].todo \in Seq(AnyItem) /\ rd[Main].todo # <<>>
        /\ rd'[Main] = Idle
    BY <1>10, MainDoes
  <2>2. Head(rd[Main].todo).c = clip.c
    BY <1>0, <2>1, AboutClip DEF OneAtATime
  <2>3. /\ shared' = Head(rd[Main].todo)
        /\ UNCHANGED <<backend, clip, wr, incoming, lastHash, notes, barrier>>
    BY <1>0, <1>10 DEF Send
  <2>4. wr = NoWrite /\ incoming = <<>> /\ Seen(clip.c)
    BY <1>0, <1>r, <2>1 DEF Reported
  <2>5. shared'.c = clip'.c /\ Seen(shared.c)'
    BY <2>2, <2>3, <2>4 DEF Seen
  <2> QED
    BY <1>0, <1>i, <2>1, <2>3, <2>4, <2>5 DEF Reported
<1>11. CASE X11Wait
  <2>1. UNCHANGED <<backend, clip, wr, rd, incoming, shared, lastHash, notes, dirty, barrier>>
           /\ Items(clip)' = Items(clip)
    BY <1>11, <1>k DEF X11Wait
  <2> QED
    BY <1>0, <1>s, <2>1 DEF Reported
<1>12. CASE X11Owner \/ X11Targets
  <2>1. /\ notes # <<>> /\ wr = NoWrite /\ Tail(notes) = <<>> /\ Head(notes).by = clip.by
        /\ Head(notes).kind = clip.kind /\ clip.kind # "none"
    BY <1>0, <1>12 DEF X11Owner, X11Targets, X11Handles, Handling, OneAtATime
  <2>2. UNCHANGED <<backend, clip, wr, rd, incoming, shared, lastHash, dirty, barrier>>
           /\ Items(clip)' = Items(clip)
    BY <1>12, <1>k DEF X11Owner, X11Targets, X11Handles
  <2>3. notes' # <<>> \/ clip.by = "node"
    <3>1. ASSUME NEW ev PROVE <<>> \o Ask(ev) # <<>>
      <4>1. ASSUME NEW x PROVE <<>> \o <<x>> # <<>>
        OBVIOUS
      <4> QED
        BY <2>1, <4>1 DEF Ask
    <3> QED
      BY <1>12, <2>1, <3>1 DEF X11Owner, X11Targets
  <2> QED
    BY <1>0, <1>s, <2>1, <2>2, <2>3 DEF Reported
<1>13. CASE X11Data \/ PushLocalCopy
  <2>1. /\ notes # <<>> /\ wr = NoWrite /\ Head(notes).c = clip.c /\ Head(notes).by = clip.by
        /\ Head(notes).kind = clip.kind /\ rd[Main] = Idle /\ incoming = <<>>
    BY <1>0, <1>13 DEF X11Data, PushLocalCopy, X11Handles, Handling, OneAtATime
  <2>2. UNCHANGED <<backend, clip, wr, incoming, shared, lastHash, dirty, barrier>>
           /\ Items(clip)' = Items(clip)
    BY <1>13, <1>k DEF X11Data, PushLocalCopy, X11Handles
  <2>3. Items(Head(notes)) = Items(clip) /\ Items(clip) \in Seq(AnyItem)
    BY <2>1, ItemsSame, ReadsOK
  <2>4. rd'[Main] = Checking(Items(clip)) \/ rd'[Main] = [at |-> "incr", todo |-> Items(clip)]
    BY <1>13, <2>3, MainDoes
  <2>5. /\ rd'[Main].at \in {"idle", "load", "incr"} /\ rd'[Main].todo = Items(clip)
        /\ rd'[Main] = Idle => Items(clip) = <<>>
    BY <1>c, <1>i, <2>3, <2>4
  <2> QED
    BY <1>0, <1>i, <1>s, <2>1, <2>2, <2>5 DEF Reported
<1>14. CASE X11IncrDrops
  BY <1>14, <1>r DEF X11IncrDrops
<1>15. CASE X11IncrDone
  <2>1. rd[Main].at = "incr" /\ rd'[Main] = Checking(Items(clip)) /\ Items(clip) \in Seq(AnyItem)
    BY <1>0, <1>15, MainDoes, ReadsOK DEF Reported
  <2>2. UNCHANGED <<backend, clip, wr, incoming, shared, lastHash, notes, dirty, barrier>>
           /\ Items(clip)' = Items(clip)
    BY <1>15, <1>k DEF X11IncrDone
  <2>3. rd'[Main].at \in {"idle", "load"} /\ (rd'[Main] = Idle => Items(clip) = <<>>)
    BY <1>c, <2>1
  <2> QED
    BY <1>0, <1>r, <1>s, <2>1, <2>2, <2>3 DEF Reported
<1>16. CASE AndroidWatch
  <2>1. /\ incoming # <<>> /\ shared' = Head(incoming) /\ incoming' = <<>> /\ rd[Main] = Idle /\ wr = NoWrite
        /\ Head(incoming).c = clip.c
        /\ UNCHANGED <<backend, clip, wr, rd, lastHash, notes, dirty, barrier>>
    BY <1>0, <1>16 DEF AndroidWatch, OneAtATime
  <2>2. Seen(clip.c)
    BY <1>0, <2>1 DEF Reported
  <2>3. shared'.c = clip'.c /\ Seen(shared.c)'
    BY <2>1, <2>2 DEF Seen
  <2> QED
    BY <1>0, <1>i, <2>1, <2>3 DEF Reported
<1>17. CASE AndroidEnqueue
  <2>1. rd[Main].at = "send" /\ rd'[Main] = Idle
    BY <1>17, MainDoes
  <2>2. wr = NoWrite /\ incoming = <<>> /\ Seen(clip.c)
    BY <1>0, <1>r, <2>1 DEF Reported
  <2>3. incoming' # <<>>
    <3>1. ASSUME NEW x PROVE Len(<<>>) = 0 /\ Append(<<>>, x) # <<>>
      OBVIOUS
    <3> QED
      BY <1>17, <2>2, <3>1, BuffersFit DEF AndroidEnqueue
  <2>4. UNCHANGED <<backend, clip, wr, shared, lastHash, notes, dirty, barrier>>
    BY <1>17 DEF AndroidEnqueue
  <2> QED
    BY <1>0, <1>i, <1>s, <2>1, <2>2, <2>3, <2>4 DEF Reported
<1> QED
  BY <1>1, <1>2, <1>3, <1>4, <1>5, <1>6, <1>7, <1>8, <1>9, <1>10, <1>11, <1>12, <1>13, <1>14, <1>15,
     <1>16, <1>17, StepsOf, Undisturbed, StillOn

\* wl_clipboard: what is in the clipboard was seen or the next poll finds it.
LEMMA PolledStays ==
    ASSUME Shape, Agreeing, BackendStep, ~disturbed', ~ctx', backend = "wl_clipboard"
    PROVE  Polled'
<1> USE DEF os, flow, life, score, count
<1>0. Main \in Readers /\ Polled /\ ~ctx /\ watch = "on"
  BY MainIsReader, Undisturbed, StillOn DEF Agreeing
<1>i. Idle.at = "idle" /\ Idle.todo = <<>> /\ NoWrite.steps = <<>>
  BY DEF Idle, NoWrite
<1>w. wr # NoWrite => wr.c \in Contents /\ wr.steps \in MarkSet
  BY DEF Shape, WriteOK, StepsLeft
<1>n. \A c \in Contents : \A s : [c |-> c, steps |-> s] # NoWrite
  BY NothingIsNothing DEF NoWrite
<1>h. /\ <<"mark", "set">> # <<"set">> /\ <<"mark", "set">> # <<>>
      /\ Head(<<"mark", "set">>) = "mark" /\ Head(<<"set">>) = "set"
  OBVIOUS
<1>d. rd[Main].at = "idle" <=> rd[Main] = Idle
  BY <1>0, <1>i DEF Shape, ReadersOK, ReaderOK
<1>p. ASSUME NEW c \in Cs PROVE <<"bytes", c>> # NoHash
  <2>1. <<"bytes", c>> \in {"bytes", "list", "name", "part"} \X (Contents \cup {NoContent})
    BY <1>p DEF Cs
  <2> QED
    BY <2>1, NothingIsNothing
<1>1. CASE \E c \in Contents : UserCopy(c) \/ StartWrite(c)
  <2>0. /\ notes = <<>> /\ ~dirty /\ ~barrier /\ incoming = <<>> /\ wr = NoWrite
        /\ rd[Main] = Idle
    BY <1>1, Undisturbed
  <2>1. ASSUME NEW c \in Contents, UserCopy(c) PROVE Polled'
    <3>1. dirty' /\ UNCHANGED <<wr, rd, lastHash, shared>>
      BY <2>1 DEF UserCopy, Changed
    <3> QED
      BY <1>0, <1>h, <1>i, <2>0, <3>1 DEF Polled
  <2>2. ASSUME NEW c \in Contents, StartWrite(c) PROVE Polled'
    <3>1. /\ wr' = [c |-> c, steps |-> <<"mark", "set">>] /\ shared'.c = c
          /\ UNCHANGED <<rd, lastHash, clip, dirty>>
      BY <2>2 DEF StartWrite, Item, WriteSteps, WlClipboardWrite
    <3>2. wr' # NoWrite /\ wr'.c = c /\ wr'.steps = <<"mark", "set">>
      BY <1>n, <3>1
    <3> QED
      BY <1>0, <1>i, <2>0, <3>1, <3>2 DEF Polled
  <2> QED
    BY <1>1, <2>1, <2>2
<1>2. CASE WriteMark
  <2>1. /\ wr # NoWrite /\ wr.steps = <<"mark", "set">> /\ wr' = [c |-> wr.c, steps |-> <<"set">>]
        /\ wr.c \in Contents /\ lastHash' = <<"bytes", wr.c>> /\ UNCHANGED <<rd, shared>>
    BY <1>2, <1>h, <1>w, WrittenOK DEF WriteMark, Mark, Hash, Item, Shape, WriteOK
  <2>2. wr' # NoWrite /\ wr'.steps = <<"set">>
    BY <1>n, <2>1
  <2>3. shared.c = wr.c /\ rd[Main].at \in {"idle", "load"}
    BY <1>0, <2>1 DEF Polled
  <2> QED
    BY <1>0, <1>h, <2>1, <2>2, <2>3 DEF Polled
<1>3. CASE WriteSet
  <2>1. wr # NoWrite /\ wr.steps = <<"set">> /\ wr' = NoWrite /\ dirty' /\ UNCHANGED <<rd, shared, lastHash>>
    BY <1>3, <1>h, <1>w, WrittenOK DEF WriteSet, Changed, Shape, WriteOK
  <2> QED
    BY <1>0, <1>h, <1>i, <2>1 DEF Polled
<1>4. CASE CheckLoad(Main)
  <2> DEFINE todo == rd[Main].todo
  <2>1. /\ rd[Main].at = "load" /\ todo \in Seq(AnyItem) /\ todo # <<>>
        /\ rd'[Main] = IF Hash(Head(todo)) = lastHash THEN Checking(Tail(todo))
                       ELSE [at |-> "store", todo |-> todo]
    BY <1>4, MainDoes
  <2>2. UNCHANGED <<clip, wr, shared, lastHash, dirty>>
    BY <1>4 DEF CheckLoad
  <2>3. /\ Head(todo) \in AnyItem /\ Tail(todo) = <<>> /\ Hash(Head(todo)) = <<"bytes", Head(todo).c>>
        /\ rd[Main] # Idle
    BY <1>0, <1>i, <2>1 DEF Polled, Hash
  <2>4. Head(todo).c \in Cs
    BY <2>3 DEF AnyItem
  <2>5. CASE Hash(Head(todo)) = lastHash
    <3>1. rd'[Main] = Idle
      BY <2>1, <2>3, <2>5 DEF Checking
    <3>2. lastHash = <<"bytes", Head(todo).c>> /\ lastHash # NoHash
      BY <1>p, <2>3, <2>4, <2>5
    <3>3. wr.steps # <<"mark", "set">> => shared.c = Head(todo).c
      BY <1>0, <2>1, <3>2 DEF Polled
    <3>4. ~dirty /\ wr = NoWrite => shared.c = clip.c /\ lastHash = <<"bytes", clip.c>>
      BY <1>0, <1>h, <1>i, <2>3, <3>2, <3>3 DEF Polled
    <3> QED
      BY <1>0, <1>i, <2>1, <2>2, <3>1, <3>4 DEF Polled
  <2>6. CASE Hash(Head(todo)) # lastHash
    <3>1. rd'[Main] = [at |-> "store", todo |-> todo] /\ rd'[Main] # Idle
      BY <1>i, <2>1, <2>6
    <3>2. wr.steps # <<"mark", "set">>
      BY <1>0, <2>1, <2>3, <2>6 DEF Polled
    <3> QED
      BY <1>0, <2>2, <2>3, <3>1, <3>2 DEF Polled
  <2> QED
    BY <2>5, <2>6
<1>5. CASE CheckStore(Main)
  <2>1. /\ rd[Main].at = "store" /\ rd[Main].todo \in Seq(AnyItem) /\ rd[Main].todo # <<>>
        /\ rd'[Main] = [at |-> "send", todo |-> rd[Main].todo]
    BY <1>5, MainDoes
  <2>2. UNCHANGED <<clip, wr, shared, dirty>> /\ lastHash' = Hash(Head(rd[Main].todo))
    BY <1>5 DEF CheckStore
  <2>3. lastHash' = <<"bytes", Head(rd[Main].todo).c>> /\ rd[Main] # Idle /\ rd'[Main] # Idle
    BY <1>0, <1>i, <2>1, <2>2 DEF Polled, Hash
  <2>4. wr.steps # <<"mark", "set">>
    BY <1>0, <2>1 DEF Polled
  <2> QED
    BY <1>0, <2>1, <2>2, <2>3, <2>4 DEF Polled
<1>6. CASE Send(Main)
  <2>1. rd[Main].at = "send" /\ rd'[Main] = Idle /\ rd[Main] # Idle
    BY <1>6, <1>i, MainDoes
  <2>2. shared' = Head(rd[Main].todo) /\ UNCHANGED <<clip, wr, lastHash, dirty>>
    BY <1>0, <1>6 DEF Send
  <2>3. wr.steps # <<"mark", "set">> /\ lastHash = <<"bytes", Head(rd[Main].todo).c>>
    BY <1>0, <2>1 DEF Polled
  <2> QED
    BY <1>0, <1>i, <2>1, <2>2, <2>3 DEF Polled
<1>7. CASE WlClipboardTick
  <2>1. rd[Main] = Idle /\ rd'[Main] = Checking(Items(clip)) /\ UNCHANGED <<clip, wr, lastHash, shared>>
    BY <1>7, MainDoes DEF WlClipboardTick, Free
  <2>2. CASE clip.kind = "none"
    <3>1. rd'[Main] = Idle
      BY <2>1, <2>2 DEF Items, Checking
    <3> QED
      BY <1>0, <1>i, <2>1, <2>2, <3>1 DEF Polled
  <2>3. CASE clip.kind # "none"
    <3> DEFINE x == Item("bytes", clip.c, clip.by)
    <3>1. Items(clip) = <<x>>
      BY <1>7, <2>3 DEF Items
    <3>2. x.c = clip.c /\ x.as = "bytes"
      BY DEF Item
    <3> HIDE DEF x
    <3>3. <<x>> # <<>> /\ Head(<<x>>) = x /\ Tail(<<x>>) = <<>>
      OBVIOUS
    <3>4. rd'[Main] = [at |-> "load", todo |-> <<x>>]
      BY <2>1, <3>1, <3>3 DEF Checking
    <3>5. rd'[Main].at = "load" /\ rd'[Main].todo = <<x>> /\ rd'[Main] # Idle
      BY <1>i, <3>4
    <3> QED
      BY <1>0, <1>i, <2>1, <2>3, <3>2, <3>3, <3>5 DEF Polled
  <2> QED
    BY <2>2, <2>3
<1> QED
  BY <1>1, <1>2, <1>3, <1>4, <1>5, <1>6, <1>7, StepsOf, Undisturbed, StillOn

\* At the start the clipboard is empty and there is nothing to agree on.
LEMMA InitSettled == Init => SettledInv
<1> SUFFICES ASSUME Init PROVE SettledInv
  OBVIOUS
<1>1. /\ rd[Main] = Idle /\ Idle.todo = <<>> /\ Idle.at = "idle" /\ NoWrite.steps = <<>>
      /\ <<>> # <<"mark", "set">>
  BY MainIsReader DEF Init, Idle, NoWrite
<1>2. clip.by = "user" /\ clip.kind = "none" /\ Items(clip) = <<>>
  BY DEF Init, Empty, Items
<1>3. Reported /\ Polled
  BY <1>1, <1>2 DEF Init, Reported, Polled, Seen
<1> QED
  BY <1>3, InitLoop DEF SettledInv, Agreeing

\* Every step keeps the agreement.
LEMMA NextSettled == SettledInv /\ [Next]_vars => SettledInv'
<1> SUFFICES ASSUME SettledInv, [Next]_vars PROVE SettledInv'
  OBVIOUS
<1>0. Shape /\ Orderly /\ Agreeing /\ LoopInv'
  BY NextLoop DEF SettledInv, LoopInv
<1>1. CASE MonitorStep \/ UNCHANGED vars
  <2>1. UNCHANGED <<backend, clip, notes, dirty, lastHash, barrier, incoming, rd, wr, shared, disturbed, ctx>>
    BY <1>1, MonitorBeside
  <2>2. Items(clip)' = Items(clip) /\ \A c : Seen(c)' = Seen(c)
    BY <2>1 DEF Items, Item, Seen
  <2>3. Polled' = Polled /\ Reported' = Reported
    BY <2>1, <2>2 DEF Polled, Reported
  <2> QED
    BY <1>0, <2>1, <2>3 DEF SettledInv, Agreeing
<1>2. CASE BackendStep
  BY <1>0, <1>2, SameBackend, ReportedStays, PolledStays DEF SettledInv, Agreeing
<1> QED
  BY <1>1, <1>2 DEF Next

\* On x11, wl_clipboard, android and mac, when no change began before the
\* previous one was settled, a settled clipboard holds what the network last
\* got: no copy of the user is swallowed by the Deduplicator, by the window or by
\* the buffer, and no write of the node is undone.
THEOREM EventfulSettledAgrees == Spec => []SettledAgrees
<1>1. SettledInv => SettledAgrees
  <2> SUFFICES ASSUME SettledInv, Quiet, ~disturbed, ~ctx, Items(clip) # <<>>,
                      backend \in {"x11", "wl_clipboard", "android", "mac"}
               PROVE  shared.c = clip.c
    BY DEF SettledAgrees
  <2>1. rd[Main] = Idle
    BY MainIsReader DEF Quiet
  <2>2. clip.kind # "none"
    BY DEF Items
  <2> QED
    BY <2>1, <2>2 DEF SettledInv, Agreeing, Reported, Polled, Quiet
<1> QED
  BY <1>1, InitSettled, NextSettled, PTL DEF Spec
=============================================================================
