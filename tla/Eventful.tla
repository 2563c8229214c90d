------------------------------ MODULE Eventful ------------------------------
(***************************************************************************)
(* The clipboard backends of pkg/clipboard: what Watch reports and what    *)
(* Write does, for x11, wlr, wl_clipboard, windows, mac, android and null. *)
(*                                                                         *)
(* They share the Deduplicator (Check loads and stores in two steps) and   *)
(* differ in how they learn of a change, in what Write does before and     *)
(* after it sets the clipboard, and in how Watch ends.  A content stands   *)
(* for its bytes; a hash is the pair of what was hashed and the content,   *)
(* because file lists are checked by another hash than they are marked by. *)
(* Time appears only as the suppression window (barrier): open or over.    *)
(* Updates go through the bounded channel that node.monitor makes to its   *)
(* update goroutine, and from there to the monitor's select loop, which    *)
(* also calls Write and which stops when the context is done.              *)
(***************************************************************************)
EXTENDS Naturals, Sequences

CONSTANTS
    Texts, Images, Paths,   \* contents by kind; a path content is a file list
    Backends,               \* the backends a behaviour may be about
    Readers,                \* goroutines that may read at once (wlr)
    AllowCopyFiles,         \* the option
    Big,                    \* contents x11 transfers in increments
    LocalBuffer,            \* capacity of the incoming channel (16 in the code)
    UpdateBuffer,           \* capacity of the update channel (MaxClipboardFiles)
    MaxCopies, MaxWrites,   \* bounds
    NoContent, NoHash

Contents == Texts \cup Images \cup Paths

ASSUME BackendsKnown ==
    Backends \subseteq {"x11", "wlr", "wl_clipboard", "windows", "mac", "android", "null"}
ASSUME BuffersFit ==
    LocalBuffer \in Nat \ {0} /\ UpdateBuffer \in Nat \ {0} /\ AllowCopyFiles \in BOOLEAN
ASSUME ReadersAssumption == Readers # {}
ASSUME NothingIsNothing ==
    /\ NoContent \notin Contents
    /\ NoHash \notin {"bytes", "list", "name", "part"} \X (Contents \cup {NoContent})

VARIABLES
    backend,    \* never changes
    clip,       \* the system clipboard: content, its kind there, who put it
    notes,      \* change events not yet handled
    dirty,      \* changed since the last poll
    lastHash,   \* Deduplicator
    barrier,    \* the suppression window is open
    incoming,   \* android, null: local copies on their way to Watch
    rd,         \* per reader: items still to be checked, and where it is
    wr,         \* the Write in progress: content and remaining steps
    out,        \* items sent on the update channel
    shared,     \* the last item written here or sent on the update channel
    disturbed,  \* something happened before the previous change was settled
    ctx,        \* the context is done
    watch,      \* "on", "flagged" (wlr: closed is set) or "closed"
    waiting,    \* x11: inside WaitForEvent
    polled,     \* null: what pollInput read last
    panicked,   \* a send on the closed channel
    queued,     \* updates in the channel between Watch and the monitor
    held,       \* the update goroutine is handing one over to the select loop
    gone,       \* the monitor has returned
    copies, writes

os    == <<clip, notes, dirty>>
flow  == <<queued, held, gone>>
life  == <<ctx, watch, waiting, panicked, flow>>
score == <<out, shared, disturbed>>
count == <<copies, writes>>
vars  == <<backend, os, lastHash, barrier, incoming, polled, rd, wr, score, life, count>>

KindOf(c) == IF c \in Texts THEN "text" ELSE IF c \in Images THEN "image" ELSE "path"

Item(as, c, by) == [as |-> as, c |-> c, by |-> by]
Hash(i)         == <<i.as, i.c>>

Idle    == [at |-> "idle", todo |-> <<>>]
NoWrite == [c |-> NoContent, steps |-> <<>>]
Empty   == [c |-> NoContent, kind |-> "none", by |-> "user"]

TypeOK ==
    /\ backend \in Backends
    /\ clip \in [c : Contents \cup {NoContent}, kind : {"none", "text", "image", "path"}, by : {"user", "node"}]
    /\ \A i \in DOMAIN notes : notes[i].by \in {"user", "node"}
    /\ dirty \in BOOLEAN /\ barrier \in BOOLEAN /\ disturbed \in BOOLEAN
    /\ \A r \in Readers : rd[r].at \in {"idle", "incr", "read", "load", "store", "send", "sending"}
    /\ Len(incoming) <= LocalBuffer
    /\ (barrier => backend \in {"wlr", "windows", "mac"})
    /\ (watch = "flagged" => backend = "wlr" /\ ctx)
    /\ queued \in 0..UpdateBuffer /\ held \in BOOLEAN /\ gone \in BOOLEAN

Quiet ==
    /\ notes = <<>> /\ ~dirty /\ ~barrier /\ incoming = <<>>
    /\ wr = NoWrite /\ \A r \in Readers : rd[r] = Idle
    /\ queued = 0 /\ ~held

\* New of each backend: no hash seen, no window open.  The clipboard is empty,
\* so the fetch with which Watch of x11 begins is refused.
Init ==
    /\ backend \in Backends
    /\ clip = Empty /\ notes = <<>> /\ dirty = FALSE
    /\ lastHash = NoHash /\ barrier = FALSE /\ incoming = <<>>
    /\ rd = [r \in Readers |-> Idle]
    /\ wr = NoWrite
    /\ out = {} /\ shared = Item("bytes", NoContent, "user") /\ disturbed = FALSE
    /\ polled = NoContent
    /\ ctx = FALSE /\ watch = "on" /\ waiting = FALSE /\ panicked = FALSE
    /\ queued = 0 /\ held = FALSE /\ gone = FALSE
    /\ copies = 0 /\ writes = 0

----------------------------------------------------------------------------
\* The system clipboard and its users.

\* A change of the clipboard, and how the backend will learn of it.
Changed(c, kind, by) ==
    /\ clip' = [c |-> c, kind |-> kind, by |-> by]
    /\ notes' = IF backend \in {"x11", "wlr", "windows", "android"}
                THEN Append(notes, [ev |-> "owner", c |-> c, kind |-> kind, by |-> by])
                ELSE notes
    /\ dirty' = (dirty \/ backend \in {"wl_clipboard", "mac", "null"})

UserCopy(c) ==
    /\ copies < MaxCopies
    /\ Changed(c, KindOf(c), "user")
    /\ copies' = copies + 1
    /\ disturbed' = (disturbed \/ ~Quiet)
    /\ UNCHANGED <<backend, lastHash, barrier, incoming, polled, rd, wr, out, shared, life, writes>>

----------------------------------------------------------------------------
\* Write.

\* The order in which each backend marks, opens the window and sets.
X11WriteUnmarked == <<"set">>
WlrWriteLate     == <<"set", "suppress">>
X11Write         == <<"mark", "set">>
WlrWrite         == <<"suppress", "set">>
WlClipboardWrite == <<"mark", "set">>
WindowsWrite     == <<"suppress", "set">>
MacWrite         == <<"suppress", "clear", "set", "mark">>
AndroidWrite     == <<"mark", "set">>
NullWrite        == <<"mark">>

WriteSteps ==
    CASE backend = "x11"          -> X11Write
      [] backend = "wlr"          -> WlrWrite
      [] backend = "wl_clipboard" -> WlClipboardWrite
      [] backend = "windows"      -> WindowsWrite
      [] backend = "mac"          -> MacWrite
      [] backend = "android"      -> AndroidWrite
      [] backend = "null"         -> NullWrite

\* windows and wl_clipboard have one way to write, whatever the type.
KindWritten(c) ==
    IF backend = "wl_clipboard" \/ (backend = "windows" /\ c \in Paths) THEN "text" ELSE KindOf(c)

Mark(c) == lastHash' = Hash(Item("bytes", c, "node"))

\* The monitor's select loop calls Write, and does nothing else meanwhile.
StartWrite(c) ==
    /\ writes < MaxWrites /\ ~gone /\ wr = NoWrite
    /\ wr' = [c |-> c, steps |-> WriteSteps]
    /\ shared' = Item("bytes", c, "node")
    /\ writes' = writes + 1
    /\ disturbed' = (disturbed \/ ~Quiet)
    /\ UNCHANGED <<backend, os, lastHash, barrier, incoming, polled, rd, out, life, copies>>

Written == wr' = IF Len(wr.steps) = 1 THEN NoWrite ELSE [c |-> wr.c, steps |-> Tail(wr.steps)]

WriteMark ==
    /\ wr # NoWrite /\ Head(wr.steps) = "mark"
    /\ Mark(wr.c)
    /\ Written
    /\ UNCHANGED <<backend, os, barrier, incoming, polled, rd, score, life, count>>

\* Suppress
Suppress ==
    /\ wr # NoWrite /\ Head(wr.steps) = "suppress"
    /\ barrier' = TRUE
    /\ Written
    /\ UNCHANGED <<backend, os, lastHash, incoming, polled, rd, score, life, count>>

\* clearContents counts as the change; setString and setData do not.
MacClear ==
    /\ wr # NoWrite /\ Head(wr.steps) = "clear"
    /\ clip' = Empty /\ dirty' = TRUE /\ notes' = notes
    /\ Written
    /\ UNCHANGED <<backend, lastHash, barrier, incoming, polled, rd, score, life, count>>

WriteSet ==
    /\ wr # NoWrite /\ Head(wr.steps) = "set"
    /\ IF backend = "mac"
       THEN clip' = [c |-> wr.c, kind |-> KindOf(wr.c), by |-> "node"] /\ UNCHANGED <<notes, dirty>>
       ELSE Changed(wr.c, KindWritten(wr.c), "node")
    /\ Written
    /\ UNCHANGED <<backend, lastHash, barrier, incoming, polled, rd, score, life, count>>

\* The clipboard refuses: Write returns an error, what it marked or
\* suppressed stays, and mac does not mark.
WriteFails ==
    /\ wr # NoWrite /\ Head(wr.steps) = "set" /\ backend # "wlr"
    /\ wr' = NoWrite
    /\ disturbed' = TRUE
    /\ UNCHANGED <<backend, os, lastHash, barrier, incoming, polled, rd, out, shared, life, count>>

----------------------------------------------------------------------------
\* Watch: learning of a change.

\* What a read of clipboard k is turned into, in the order it is checked.
\* windows keeps images from signAndSend; mac tries the file names as text
\* when the list is not new.  A list has several files, so that no name is
\* the whole of what Write marked.
Items(k) ==
    LET of(as) == <<Item(as, k.c, k.by)>>
        listed == IF AllowCopyFiles THEN of("list") ELSE <<>>
    IN  IF k.kind = "none" \/ (k.kind = "image" /\ backend = "windows") THEN <<>>
        ELSE IF k.kind # "path" \/ backend \in {"wl_clipboard", "android", "null"} THEN of("bytes")
        ELSE IF backend = "mac" THEN listed \o of("name")
        ELSE listed

Checking(items) == IF items = <<>> THEN Idle ELSE [at |-> "load", todo |-> items]
Free(r)         == rd[r] = Idle /\ watch = "on"
Main            == CHOOSE r \in Readers : TRUE

\* x11, windows and android handle one event after the other.
Handling(b) == backend = b /\ notes # <<>> /\ Free(Main)

\* The event loop looks at the context only between two events.
X11Wait ==
    /\ backend = "x11" /\ ~waiting /\ ~ctx /\ Free(Main)
    /\ waiting' = TRUE
    /\ UNCHANGED <<backend, os, lastHash, barrier, incoming, polled, rd, wr, score, ctx, watch, panicked, flow, count>>

X11Handles(ev) ==
    /\ Handling("x11") /\ waiting /\ Head(notes).ev = ev
    /\ waiting' = FALSE
    /\ UNCHANGED <<backend, clip, dirty, lastHash, barrier, incoming, polled, wr, score, ctx, watch, panicked, flow, count>>

\* The owner of this moment answers: a conversion to a kind it does not
\* offer is refused.
Ask(ev) == IF clip.kind = "none" THEN <<>>
           ELSE <<[ev |-> ev, c |-> clip.c, kind |-> clip.kind, by |-> clip.by]>>

\* handleEvent: a new owner, other than this window, is asked for its targets.
X11Owner ==
    /\ X11Handles("owner")
    /\ notes' = Tail(notes) \o IF Head(notes).by = "node" THEN <<>> ELSE Ask("targets")
    /\ UNCHANGED rd

\* handleNotify with the targets: ask for the best of them.
X11Targets ==
    /\ X11Handles("targets")
    /\ notes' = Tail(notes) \o IF clip.kind = Head(notes).kind THEN Ask("data") ELSE <<>>
    /\ UNCHANGED rd

\* handleNotify with the content, whole or the start of an INCR transfer.
X11Data ==
    /\ X11Handles("data")
    /\ notes' = Tail(notes)
    /\ rd' = [rd EXCEPT ![Main] = IF Head(notes).c \in Big
                                  THEN [at |-> "incr", todo |-> Items(Head(notes))]
                                  ELSE Checking(Items(Head(notes)))]

\* readIncr: events that are not of the transfer are read and dropped.
X11IncrDrops ==
    /\ backend = "x11" /\ rd[Main].at = "incr" /\ notes # <<>>
    /\ notes' = Tail(notes)
    /\ UNCHANGED <<backend, clip, dirty, lastHash, barrier, incoming, polled, rd, wr, score, life, count>>

X11IncrDone ==
    /\ backend = "x11" /\ rd[Main].at = "incr"
    /\ rd' = [rd EXCEPT ![Main] = Checking(@.todo)]
    /\ UNCHANGED <<backend, os, lastHash, barrier, incoming, polled, wr, score, life, count>>

\* wlr and windows: inside the window an event only prolongs it.  Each read is
\* a goroutine of its own; a new one takes the first name that is free.
WlrSelection(r) ==
    /\ backend = "wlr" /\ notes # <<>> /\ Free(r)
    /\ r = CHOOSE s \in Readers : Free(s)
    /\ notes' = Tail(notes)
    /\ barrier' = TRUE
    /\ rd' = IF barrier \/ Items(Head(notes)) = <<>> THEN rd
             ELSE [rd EXCEPT ![r] = [at |-> "read", todo |-> Items(Head(notes))]]
    /\ UNCHANGED <<backend, clip, dirty, lastHash, incoming, polled, wr, score, life, count>>

\* readPipeData: the timer may close the pipe before the source has written
\* all of it; what has been read is then used.
WlrRead(r) ==
    /\ backend = "wlr" /\ rd[r].at = "read"
    /\ \E items \in {rd[r].todo, <<[Head(rd[r].todo) EXCEPT !.as = "part"]>>, <<>>} :
          rd' = [rd EXCEPT ![r] = Checking(items)]
    /\ UNCHANGED <<backend, os, lastHash, barrier, incoming, polled, wr, score, life, count>>

\* wndProc, wmClipboardUpdate
WindowsUpdate ==
    /\ Handling("windows")
    /\ notes' = Tail(notes)
    /\ barrier' = TRUE
    /\ rd' = IF barrier THEN rd ELSE [rd EXCEPT ![Main].at = "read"]
    /\ UNCHANGED <<backend, clip, dirty, lastHash, incoming, polled, wr, score, life, count>>

\* Watch of mac: at a tick, when changeCount has changed.
MacTick ==
    /\ backend = "mac" /\ dirty /\ Free(Main)
    /\ dirty' = FALSE
    /\ rd' = IF barrier THEN rd ELSE [rd EXCEPT ![Main].at = "read"]
    /\ UNCHANGED <<backend, clip, notes, lastHash, barrier, incoming, polled, wr, score, life, count>>

\* readDetected, and the reads in mac's Watch: the clipboard of this moment.
ReadClipboard ==
    /\ backend \in {"windows", "mac"} /\ rd[Main].at = "read"
    /\ rd' = [rd EXCEPT ![Main] = Checking(Items(clip))]
    /\ UNCHANGED <<backend, os, lastHash, barrier, incoming, polled, wr, score, life, count>>

\* tryOpenClipboard gives up.
OpenFails ==
    /\ backend = "windows" /\ rd[Main].at = "read"
    /\ rd' = [rd EXCEPT ![Main] = Idle]
    /\ UNCHANGED <<backend, os, lastHash, barrier, incoming, polled, wr, score, life, count>>

WlClipboardTick ==
    /\ backend = "wl_clipboard" /\ Free(Main)
    /\ dirty' = FALSE
    /\ rd' = [rd EXCEPT ![Main] = Checking(Items(clip))]
    /\ UNCHANGED <<backend, clip, notes, lastHash, barrier, incoming, polled, wr, score, life, count>>

PushLocalCopy ==
    /\ Handling("android")
    /\ notes' = Tail(notes)
    /\ rd' = [rd EXCEPT ![Main] = Checking(Items(Head(notes)))]
    /\ UNCHANGED <<backend, clip, dirty, lastHash, barrier, incoming, polled, wr, score, life, count>>

\* Mutant: pollInput does not wait for room.
NullPollUnbounded ==
    /\ backend = "null" /\ dirty /\ ~ctx
    /\ incoming' = Append(incoming, Items(clip)[1])
    /\ polled' = clip.c /\ dirty' = FALSE
    /\ UNCHANGED <<backend, clip, notes, lastHash, barrier, rd, wr, score, life, count>>

\* pollInput blocks while the channel is full.
NullPoll ==
    /\ backend = "null" /\ dirty /\ ~ctx
    /\ IF clip.c = polled THEN UNCHANGED incoming
       ELSE Len(incoming) < LocalBuffer /\ incoming' = Append(incoming, Items(clip)[1])
    /\ polled' = clip.c /\ dirty' = FALSE
    /\ UNCHANGED <<backend, clip, notes, lastHash, barrier, rd, wr, score, life, count>>

\* The channel takes one more update.
Queue == queued < UpdateBuffer /\ queued' = queued + 1

\* Watch of android passes on what PushLocalCopy checked, Watch of null
\* checks what pollInput found.  What android holds while it waits for room
\* still counts as incoming here; a done context ends the wait (EndWatch).
AndroidWatch ==
    /\ backend = "android" /\ incoming # <<>> /\ watch = "on"
    /\ Queue
    /\ incoming' = Tail(incoming)
    /\ out' = out \cup {Head(incoming)} /\ shared' = Head(incoming)
    /\ UNCHANGED <<backend, os, lastHash, barrier, polled, rd, wr, disturbed, ctx, watch, waiting, panicked,
                   held, gone, count>>

NullWatch ==
    /\ backend = "null" /\ incoming # <<>> /\ Free(Main)
    /\ incoming' = Tail(incoming)
    /\ rd' = [rd EXCEPT ![Main] = Checking(<<Head(incoming)>>)]
    /\ UNCHANGED <<backend, os, lastHash, barrier, polled, wr, score, life, count>>

----------------------------------------------------------------------------
\* Deduplicator.Check, and the send.

CheckLoad(r) ==
    /\ rd[r].at = "load"
    /\ rd' = [rd EXCEPT ![r] = IF Hash(Head(@.todo)) = lastHash THEN Checking(Tail(@.todo))
                               ELSE [@ EXCEPT !.at = "store"]]
    /\ UNCHANGED <<backend, os, lastHash, barrier, incoming, polled, wr, score, life, count>>

CheckStore(r) ==
    /\ rd[r].at = "store"
    /\ lastHash' = Hash(Head(rd[r].todo))
    /\ rd' = [rd EXCEPT ![r].at = "send"]
    /\ UNCHANGED <<backend, os, barrier, incoming, polled, wr, score, life, count>>

\* wlr reads its closed flag before it sends.
WlrClosed(r) ==
    /\ rd[r].at = "send" /\ backend = "wlr"
    /\ rd' = [rd EXCEPT ![r] = IF watch = "on" THEN [@ EXCEPT !.at = "sending"] ELSE Idle]
    /\ UNCHANGED <<backend, os, lastHash, barrier, incoming, polled, wr, score, life, count>>

\* upd <- Update: waits for room, and panics on a closed channel, full or not.
\* The files of a list count as one update.
Send(r) ==
    /\ rd[r].at = IF backend = "wlr" THEN "sending" ELSE "send"
    /\ backend # "android"
    /\ rd' = [rd EXCEPT ![r] = Idle]
    /\ IF watch = "closed"
       THEN panicked' = TRUE /\ UNCHANGED <<out, shared, queued>>
       ELSE /\ Queue
            /\ out' = out \cup {Head(rd[r].todo)} /\ shared' = Head(rd[r].todo)
            /\ UNCHANGED panicked
    /\ UNCHANGED <<backend, os, lastHash, barrier, incoming, polled, wr, disturbed, ctx, watch, waiting,
                   held, gone, count>>

\* android: dropped when the buffer is full.
AndroidEnqueue ==
    /\ backend = "android" /\ rd[Main].at = "send"
    /\ rd' = [rd EXCEPT ![Main] = Idle]
    /\ incoming' = IF Len(incoming) < LocalBuffer THEN Append(incoming, Head(rd[Main].todo)) ELSE incoming
    /\ UNCHANGED <<backend, os, lastHash, barrier, polled, wr, score, life, count>>

----------------------------------------------------------------------------
\* Time and the end.

\* The window passes.  A write and the event it causes take less than that,
\* which is what the backends with a window rely on; mac learns of the
\* change by polling, and its tick may come later.
Expire ==
    /\ barrier /\ wr = NoWrite
    /\ \A i \in DOMAIN notes : notes[i].by # "node"
    /\ barrier' = FALSE
    /\ UNCHANGED <<backend, os, lastHash, incoming, polled, rd, wr, score, life, count>>

Cancel ==
    /\ ~ctx
    /\ ctx' = TRUE
    /\ UNCHANGED <<backend, os, lastHash, barrier, incoming, polled, rd, wr, score, watch, waiting, panicked, flow, count>>

\* Mutant: the context is looked at only when there is a change to handle.
EndWatchOnChange ==
    /\ ctx /\ watch = "on" /\ ~waiting
    /\ notes # <<>> \/ dirty
    /\ backend \in {"wlr", "android"} \/ rd[Main] = Idle
    /\ watch' = IF backend = "wlr" THEN "flagged" ELSE "closed"
    /\ UNCHANGED <<backend, os, lastHash, barrier, incoming, polled, rd, wr, score, ctx, waiting, panicked, flow, count>>

\* Watch returns; on wlr its readers are goroutines of their own, and its
\* deferred function sets the flag before it closes the channel.
EndWatch ==
    /\ ctx /\ watch = "on" /\ ~waiting
    /\ backend \in {"wlr", "android"} \/ rd[Main] = Idle
    /\ watch' = IF backend = "wlr" THEN "flagged" ELSE "closed"
    /\ UNCHANGED <<backend, os, lastHash, barrier, incoming, polled, rd, wr, score, ctx, waiting, panicked, flow, count>>

WlrClose ==
    /\ watch = "flagged"
    /\ watch' = "closed"
    /\ UNCHANGED <<backend, os, lastHash, barrier, incoming, polled, rd, wr, score, ctx, waiting, panicked, flow, count>>

----------------------------------------------------------------------------
\* The monitor, on the other side of the update channel.

Beside == <<backend, os, lastHash, barrier, incoming, polled, rd, wr, score, ctx, watch, waiting, panicked, count>>

\* The update goroutine takes an update; what it does not skip it hands to
\* Channel.Send, and waits there for the select loop.
TakeUpdate ==
    /\ queued > 0 /\ ~held
    /\ queued' = queued - 1
    /\ held' \in BOOLEAN
    /\ UNCHANGED <<gone, Beside>>

\* The select loop receives it, unless it is writing or has returned.
HandOver ==
    /\ held /\ ~gone /\ wr = NoWrite
    /\ held' = FALSE
    /\ UNCHANGED <<queued, gone, Beside>>

MonitorReturns ==
    /\ ctx /\ ~gone /\ wr = NoWrite
    /\ gone' = TRUE
    /\ UNCHANGED <<queued, held, Beside>>

----------------------------------------------------------------------------
WriteStep == WriteMark \/ Suppress \/ MacClear \/ WriteSet

WatchStep ==
    \/ X11Wait \/ X11Owner \/ X11Targets \/ X11Data \/ X11IncrDrops
    \/ WindowsUpdate \/ MacTick \/ ReadClipboard \/ WlClipboardTick
    \/ PushLocalCopy \/ NullPoll \/ AndroidWatch \/ NullWatch \/ AndroidEnqueue
    \/ \E r \in Readers : WlrSelection(r) \/ WlrRead(r) \/ CheckLoad(r) \/ CheckStore(r)
                            \/ WlrClosed(r) \/ Send(r)

End == EndWatch \/ WlrClose

\* Steps of the clipboard, its users and the backend.
BackendStep ==
    \/ \E c \in Contents : UserCopy(c) \/ StartWrite(c)
    \/ WriteStep \/ WriteFails \/ WatchStep \/ X11IncrDone \/ OpenFails
    \/ Expire \/ Cancel \/ End

MonitorStep == TakeUpdate \/ HandOver \/ MonitorReturns

Next == BackendStep \/ MonitorStep

\* Goroutines that can proceed do.  A send to a full channel cannot, and once
\* the monitor has returned nobody makes room.
Spec ==
    /\ Init /\ [][Next]_vars
    /\ WF_vars(WatchStep) /\ WF_vars(WriteStep) /\ SF_vars(End)
    /\ WF_vars(MonitorStep)

----------------------------------------------------------------------------
\* Properties.

\* Loop protection (android.go, Write: "is not picked up by PushLocalCopy and
\* re-broadcast"; the same is the purpose of Mark and Suppress elsewhere): an
\* update never carries what Write put there, unless a copy or a write began
\* before the previous one was settled.  wlr and null need no such excuse.
\* wl_clipboard has no protection while wl-copy runs, and mac checks a file
\* list by another hash than it marks.
LoopProtected ==
    \A i \in out : i.by = "node" =>
        \/ disturbed /\ backend \notin {"wlr", "null"}
        \/ backend = "wl_clipboard"
        \/ backend = "mac" /\ i.as \in {"list", "name"}

\* On the backends that mark what they write, once everything has settled the
\* clipboard holds what the network last got: the user's copy was reported, or
\* the remote one was written.  Only a clipboard that reads as nothing (empty,
\* or files on x11 without the option) is not reported.
SettledAgrees ==
    (Quiet /\ ~disturbed /\ ~ctx /\ Items(clip) # <<>>
        /\ backend \in {"x11", "wl_clipboard", "android", "mac"})
    => shared.c = clip.c

\* Watch is inside a call that nothing will end: x11's WaitForEvent without an
\* event (in Watch, or in readIncr when the owner stops), or a send to the full
\* update channel of a monitor that has returned.  wlr sends from other
\* goroutines, and android's send ends with the context.
Abandoned ==
    \/ backend = "x11" /\ (waiting \/ rd[Main].at = "incr") /\ notes = <<>>
    \/ /\ backend \notin {"wlr", "android"} /\ rd[Main].at = "send"
       /\ queued = UpdateBuffer /\ held /\ gone

\* What the backends make of the contract of Eventful, "when the context is
\* finished, Watch must close the update channel": whatever is being read,
\* checked, written or sent then, Watch comes to close it, x11 at the latest with
\* the next event, unless it ends up in one of those calls and stays there.
WatchEnds == ctx ~> [](watch = "closed" \/ Abandoned)
=============================================================================
